---- MODULE Spec2Model ----
(***************************************************************************)
(* Token lifecycle and request pipeline of the two Nordigen command-line   *)
(* clients of this repository:                                             *)
(*   - "nordigen"    : lib/config, lib/auth, lib/api (NordigenAPI) and the *)
(*                     commands built on them;                             *)
(*   - "nordigencom" : src/config.js, src/api.js.                          *)
(* One behaviour follows one installation: a sequence of command           *)
(* invocations of one of the two clients against its persisted store,      *)
(* with the wall clock advancing in between and while a call is awaited.   *)
(***************************************************************************)
EXTENDS Integers, Sequences, FiniteSets, TLC

VARIABLES
    cli,             \* which client this installation runs
    clock,           \* Date.now(), in milliseconds
    ticks,           \* how often the clock has advanced
    configInstance,  \* lib/config: the Conf store of the nordigen client
    config,          \* src/config.js: the Conf store of the nordigencom client
    pc,              \* position of the running invocation
    op,              \* the operation the invocation runs
    args,            \* its arguments
    pre,             \* the store as it was when the invocation started
    t0,              \* the clock when the invocation started
    calls,           \* network calls made by the invocation, in order
    resps,           \* their answers, each with the clock when it was processed
    nWrites,         \* store writes made by the invocation
    tok,             \* what token resolution returned or raised
    ret,             \* what the operation returned or raised
    proc,            \* what the command printed and the process's exit code
    peer             \* a second invocation running at the same time

vars == <<cli, clock, ticks, configInstance, config, pc, op, args, pre, t0,
          calls, resps, nWrites, tok, ret, proc, peer>>

(***************************************************************************)
(* Bounds of the model.                                                    *)
(***************************************************************************)
StartClock == 1000500
MaxTicks == 3
TickMs == {500, 30000}

\* What the token endpoints can answer.
AccessTokens == {"acc1", "acc2"}
RefreshTokens == {"ref1"}
AccessTTLs == {61, 3600}
RefreshTTLs == {61, 7200}
\* What the user can type.
Credentials == {<<"ID1", "KEY1">>}
Countries == {"gb"}
ConfigSetInputs == {<<"auth", "access_token", "">>, <<"auth", "access_expires", 0>>}
ConfigDeleteInputs == {<<"auth", "access_expires">>}

(***************************************************************************)
(* Program constants.                                                      *)
(***************************************************************************)
SKEW == 60
SKEW_MS == 60000

(***************************************************************************)
(* Conf store of lib/config: a JSON object with optional sections "auth"   *)
(* and "defaults", each an object with optional keys (dot-notation         *)
(* access).  A key that is not in the domain reads as undefined.           *)
(***************************************************************************)
EmptyObj == [x \in {} |-> 0]

Has(c, sec, k) == sec \in DOMAIN c /\ k \in DOMAIN c[sec]

Section(c, sec) == IF sec \in DOMAIN c THEN c[sec] ELSE EmptyObj

\* config.set('sec.k', v)
ConfSet(c, sec, k, v) ==
    [s \in DOMAIN c \cup {sec} |->
        IF s = sec
        THEN [x \in DOMAIN Section(c, sec) \cup {k} |->
                 IF x = k THEN v ELSE c[sec][x]]
        ELSE c[s]]

\* config.delete('sec')
ConfDeleteSection(c, sec) == [s \in DOMAIN c \ {sec} |-> c[s]]

\* config.delete('sec.k')
ConfDeleteKey(c, sec, k) ==
    IF Has(c, sec, k)
    THEN [s \in DOMAIN c |->
            IF s = sec THEN [x \in DOMAIN c[sec] \ {k} |-> c[sec][x]] ELSE c[s]]
    ELSE c

\* !value, for a string and for a number read from the store
FalsyStr(c, sec, k) == ~Has(c, sec, k) \/ c[sec][k] = ""

FalsyNum(c, sec, k) == ~Has(c, sec, k) \/ c[sec][k] = 0

\* Math.floor(Date.now() / 1000)
NowSec(ms) == ms \div 1000

\* A variant that accepts an expiry exactly 60 s ahead.
isAccessTokenValidInclusive(c, ms) ==
    /\ ~FalsyStr(c, "auth", "access_token")
    /\ ~FalsyNum(c, "auth", "access_expires")
    /\ c["auth"]["access_expires"] >= NowSec(ms) + SKEW

\* lib/config isAccessTokenValid()
isAccessTokenValid(c, ms) ==
    /\ ~FalsyStr(c, "auth", "access_token")
    /\ ~FalsyNum(c, "auth", "access_expires")
    /\ c["auth"]["access_expires"] > NowSec(ms) + SKEW

\* lib/config isRefreshTokenValid()
isRefreshTokenValid(c, ms) ==
    /\ ~FalsyStr(c, "auth", "refresh_token")
    /\ ~FalsyNum(c, "auth", "refresh_expires")
    /\ c["auth"]["refresh_expires"] > NowSec(ms) + SKEW

\* lib/auth isAuthenticated()
isAuthenticated(c, ms) == isAccessTokenValid(c, ms) \/ isRefreshTokenValid(c, ms)

(***************************************************************************)
(* lib/api: what fetch() resolves to, and what NordigenAPI.request() makes *)
(* of it.  A fetch outcome is either a failure of the transport or a       *)
(* response: a status, a content type and a body.  The body is a JSON      *)
(* object (a partial map of fields), the JSON value null, or text that is  *)
(* not JSON.                                                               *)
(***************************************************************************)
Obj(f) == [kind |-> "object", obj |-> f]
NullBody == [kind |-> "null", obj |-> EmptyObj]
TextBody == [kind |-> "text", obj |-> EmptyObj]

Response(st, ct, b) == [net |-> "response", status |-> st, ctype |-> ct, body |-> b]
NetworkFailure == [net |-> "failed", status |-> 0, ctype |-> "none", body |-> TextBody]

StatusText(st) ==
    CASE st = 200 -> "OK"
      [] st = 204 -> "No Content"
      [] st = 299 -> ""
      [] st = 300 -> "Multiple Choices"
      [] st = 401 -> "Unauthorized"
      [] st = 403 -> "Forbidden"
      [] st = 404 -> "Not Found"
      [] st = 429 -> "Too Many Requests"
      [] st = 500 -> "Internal Server Error"
      [] OTHER -> ""

\* response.ok
ResponseOk(st) == st >= 200 /\ st <= 299

\* data.f || ..., for a field of the decoded body
Truthy(data, f) == data.kind = "object" /\ f \in DOMAIN data.obj /\ data.obj[f] # ""

\* `HTTP ${response.status}: ${response.statusText}`
HttpMessage(st) == "HTTP " \o ToString(st) \o ": " \o StatusText(st)

\* A variant that prefers the detail to the summary.
ErrorMessageDetailFirst(data, st) ==
    IF Truthy(data, "detail") THEN data.obj["detail"]
    ELSE IF Truthy(data, "summary") THEN data.obj["summary"]
    ELSE HttpMessage(st)

\* data.summary || data.detail || `HTTP ...`
ErrorMessage(data, st) ==
    IF Truthy(data, "summary") THEN data.obj["summary"]
    ELSE IF Truthy(data, "detail") THEN data.obj["detail"]
    ELSE HttpMessage(st)

Value(v) == [kind |-> "value", val |-> v]
Raised(name, msg) == [kind |-> "error", name |-> name, message |-> msg]
RaisedStatus(msg, st, data) ==
    [kind |-> "error", name |-> "Error", message |-> msg, status |-> st,
     response |-> data]

\* NordigenAPI.request(), from the await of fetch() on
request(resp) ==
    IF resp.net = "failed"
    THEN Raised("FetchError", "request failed")
    ELSE IF resp.ctype = "json" /\ resp.body.kind = "text"
    THEN Raised("SyntaxError", "invalid json response body")
    ELSE LET data == IF resp.ctype = "json" THEN resp.body ELSE TextBody
         IN  IF ~ResponseOk(resp.status)
             THEN IF data.kind = "null"
                  THEN Raised("TypeError", "Cannot read properties of null")
                  ELSE RaisedStatus(ErrorMessage(data, resp.status), resp.status, data)
             ELSE Value(data)

(***************************************************************************)
(* The token endpoints.  token/new answers with both tokens and their      *)
(* lifetimes in seconds, token/refresh with a new access token and its     *)
(* lifetime; either may be refused or may not be reached.                  *)
(***************************************************************************)
TokenNewBody(a, r, at, rt) ==
    Obj([f \in {"access", "refresh", "access_expires", "refresh_expires"} |->
            CASE f = "access" -> a
              [] f = "refresh" -> r
              [] f = "access_expires" -> at
              [] f = "refresh_expires" -> rt])

TokenRefreshBody(a, at) ==
    Obj([f \in {"access", "access_expires"} |->
            IF f = "access" THEN a ELSE at])

Refusal ==
    Response(401, "json",
             Obj([f \in {"summary", "detail"} |->
                     IF f = "summary" THEN "Authentication failed"
                     ELSE "No active account found with the given credentials"]))

TokenFailures == {Refusal, Response(500, "html", TextBody), NetworkFailure}

TokenNewOutcomes ==
    {Response(200, "json", TokenNewBody(a, r, at, rt)) :
        a \in AccessTokens, r \in RefreshTokens, at \in AccessTTLs, rt \in RefreshTTLs}
    \cup TokenFailures

TokenRefreshOutcomes ==
    {Response(200, "json", TokenRefreshBody(a, at)) :
        a \in AccessTokens, at \in AccessTTLs}
    \cup TokenFailures

\* What a resource endpoint can answer.  Setting the request up can fail
\* before anything is sent.
SetupFailure == [net |-> "setup", status |-> 0, ctype |-> "none", body |-> TextBody]

InvalidToken == Response(401, "json", Obj([f \in {"summary"} |-> "Invalid token"]))

ResourceFailures ==
    {InvalidToken,
     Response(403, "json", Obj([f \in {"detail"} |-> "Forbidden"])),
     Response(404, "json", Obj([f \in {"summary"} |-> "Not found."])),
     Response(429, "json", Obj([f \in {"summary"} |-> "Rate limit exceeded"])),
     Response(500, "html", TextBody),
     NetworkFailure}

ResourceOutcomes ==
    {Response(200, "json", Obj([f \in {"id"} |-> "account1"]))} \cup ResourceFailures

(***************************************************************************)
(* lib/auth                                                                *)
(***************************************************************************)
NotAuthenticated ==
    Raised("Error", "Not authenticated. Please login using: nordigen auth login --secret-id <id> --secret-key <key>")

ReauthenticationRequired ==
    Raised("Error", "Failed to refresh token. Please login again using: nordigen auth login")

\* A variant that tries the refresh token before the stored access token.
ensureAuthBranchRefreshFirst(c, ms) ==
    IF isRefreshTokenValid(c, ms) THEN "refresh"
    ELSE IF isAccessTokenValid(c, ms) THEN "stored"
    ELSE "unauthenticated"

\* A variant that falls back to the stored token when nothing is valid.
ensureAuthBranchStaleToken(c, ms) ==
    IF isAccessTokenValid(c, ms) THEN "stored"
    ELSE IF isRefreshTokenValid(c, ms) THEN "refresh"
    ELSE IF ~FalsyStr(c, "auth", "access_token") THEN "stored"
    ELSE "unauthenticated"

\* A variant that refreshes only while the credentials are stored.
ensureAuthBranchNeedsCredentials(c, ms) ==
    IF isAccessTokenValid(c, ms) THEN "stored"
    ELSE IF isRefreshTokenValid(c, ms) /\ ~FalsyStr(c, "auth", "secret_id")
    THEN "refresh"
    ELSE "unauthenticated"

\* ensureAuth(): which branch the stored state selects
ensureAuthBranch(c, ms) ==
    IF isAccessTokenValid(c, ms) THEN "stored"
    ELSE IF isRefreshTokenValid(c, ms) THEN "refresh"
    ELSE "unauthenticated"

\* A variant that stores the access expiry in milliseconds.
ensureAuthSaveMilliseconds(c, result, ms) ==
    LET c1 == ConfSet(c, "auth", "access_token", result.obj["access"])
    IN  ConfSet(c1, "auth", "access_expires", ms + result.obj["access_expires"] * 1000)

\* A variant that also restarts the refresh token's lifetime.
ensureAuthSaveRefreshExpiryToo(c, result, ms) ==
    LET c1 == ConfSet(c, "auth", "access_token", result.obj["access"])
        c2 == ConfSet(c1, "auth", "access_expires",
                      NowSec(ms) + result.obj["access_expires"])
    IN  ConfSet(c2, "auth", "refresh_expires", NowSec(ms) + result.obj["access_expires"])

\* ensureAuth(): the two writes after a successful refresh
ensureAuthSave(c, result, ms) ==
    LET c1 == ConfSet(c, "auth", "access_token", result.obj["access"])
    IN  ConfSet(c1, "auth", "access_expires", NowSec(ms) + result.obj["access_expires"])

\* A variant that gives the access token the refresh token's lifetime.
loginSaveRefreshLifetime(c, secretId, secretKey, result, ms) ==
    LET c1 == ConfSet(c, "auth", "secret_id", secretId)
        c2 == ConfSet(c1, "auth", "secret_key", secretKey)
        c3 == ConfSet(c2, "auth", "access_token", result.obj["access"])
        c4 == ConfSet(c3, "auth", "refresh_token", result.obj["refresh"])
        c5 == ConfSet(c4, "auth", "access_expires",
                      NowSec(ms) + result.obj["refresh_expires"])
    IN  ConfSet(c5, "auth", "refresh_expires",
                NowSec(ms) + result.obj["refresh_expires"])

\* login(): the six writes after a successful token/new
loginSave(c, secretId, secretKey, result, ms) ==
    LET c1 == ConfSet(c, "auth", "secret_id", secretId)
        c2 == ConfSet(c1, "auth", "secret_key", secretKey)
        c3 == ConfSet(c2, "auth", "access_token", result.obj["access"])
        c4 == ConfSet(c3, "auth", "refresh_token", result.obj["refresh"])
        c5 == ConfSet(c4, "auth", "access_expires",
                      NowSec(ms) + result.obj["access_expires"])
    IN  ConfSet(c5, "auth", "refresh_expires",
                NowSec(ms) + result.obj["refresh_expires"])

\* A variant that empties the whole store.
logoutStoreEverything(c) == EmptyObj

\* logout()
logoutStore(c) == ConfDeleteSection(c, "auth")

\* A variant that removes the auth section only.
clearStoreAuthOnly(c) == ConfDeleteSection(c, "auth")

\* lib/config clear(): Conf.clear() empties the store; the schema declares
\* no default values, so nothing is put back.
clearStore(c) == EmptyObj

(***************************************************************************)
(* src/config.js and src/api.js (the nordigencom client).  The schema      *)
(* gives every key a default, so every key always reads as a value.        *)
(***************************************************************************)
ConfigDefaults ==
    [secretId |-> "", secretKey |-> "", accessToken |-> "", refreshToken |-> "",
     tokenExpiry |-> 0]

\* src/config.js isConfigured()
isConfigured(c) == c.secretId # "" /\ c.secretKey # ""

\* A variant without the 60 s margin.
hasValidTokenNoMargin(c, ms) ==
    IF c.accessToken = "" THEN FALSE ELSE c.tokenExpiry > ms

\* src/config.js hasValidToken()
hasValidToken(c, ms) ==
    IF c.accessToken = "" THEN FALSE ELSE c.tokenExpiry > ms + SKEW_MS

\* What axios makes of a fetch outcome: it resolves for a 2xx status and
\* rejects otherwise; a JSON body is parsed, any other is kept as text.
axiosData(resp) ==
    IF resp.ctype = "json" /\ resp.body.kind # "text" THEN resp.body ELSE TextBody

axiosMessage(resp) ==
    IF resp.net = "failed" THEN "connect ECONNREFUSED"
    ELSE IF resp.net = "setup" THEN "Invalid URL"
    ELSE "Request failed with status code " \o ToString(resp.status)

\* The error carries the response when one came (error.response), the
\* request when one was sent (error.request), and neither when setting the
\* request up failed.
axiosPost(resp) ==
    IF resp.net = "response" /\ ResponseOk(resp.status)
    THEN Value(axiosData(resp))
    ELSE [kind |-> "error", name |-> "AxiosError", message |-> axiosMessage(resp),
          hasResponse |-> resp.net = "response", hasRequest |-> resp.net # "setup",
          status |-> resp.status, data |-> axiosData(resp)]

\* JSON.stringify(data)
Stringify(data) ==
    CASE data.kind = "null" -> "null"
      [] data.kind = "text" -> "\"<html>\""
      [] OTHER -> "{...}"

\* data?.summary || data?.detail || data?.message || JSON.stringify(data)
ApiErrorDetail(data) ==
    IF Truthy(data, "summary") THEN data.obj["summary"]
    ELSE IF Truthy(data, "detail") THEN data.obj["detail"]
    ELSE IF Truthy(data, "message") THEN data.obj["message"]
    ELSE Stringify(data)

AuthenticationFailed == Raised("Error", "Authentication failed. Run: nordigencom auth login")

\* A variant that reports a request without response as a refused one.
NoResponseAsRefusal ==
    Raised("Error", "Authentication failed. Run: nordigencom auth login")

NoResponse ==
    Raised("Error", "No response from Nordigen API. Check your internet connection.")

\* A variant that reports the server's words for every status.
handleApiErrorVerbose(e) ==
    IF e.hasResponse
    THEN Raised("Error", "API Error (" \o ToString(e.status) \o "): " \o ApiErrorDetail(e.data))
    ELSE IF e.hasRequest THEN NoResponse
    ELSE e

\* A variant that lets a missing resource pass as an empty result.
handleApiErrorLenient(e) ==
    IF e.hasResponse
    THEN CASE e.status = 401 -> AuthenticationFailed
           [] e.status = 403 -> Raised("Error", "Access forbidden. Check your API permissions.")
           [] e.status = 404 -> Value(NullBody)
           [] e.status = 429 ->
                Raised("Error", "Rate limit exceeded. Please wait before retrying.")
           [] OTHER ->
                Raised("Error", "API Error (" \o ToString(e.status) \o "): "
                                \o ApiErrorDetail(e.data))
    ELSE IF e.hasRequest THEN NoResponse
    ELSE e

\* handleApiError(error): what it throws
handleApiError(e) ==
    IF e.hasResponse
    THEN CASE e.status = 401 -> AuthenticationFailed
           [] e.status = 403 -> Raised("Error", "Access forbidden. Check your API permissions.")
           [] e.status = 404 -> Raised("Error", "Resource not found.")
           [] e.status = 429 ->
                Raised("Error", "Rate limit exceeded. Please wait before retrying.")
           [] OTHER ->
                Raised("Error", "API Error (" \o ToString(e.status) \o "): "
                                \o ApiErrorDetail(e.data))
    ELSE IF e.hasRequest THEN NoResponse
    ELSE e

CredentialsNotConfigured ==
    Raised("Error", "Credentials not configured. Run: nordigencom config set --secret-id <id> --secret-key <key>")

\* obtainAccessToken(): error.response?.data?.summary || error.message
TokenRequestFailed(e) ==
    Raised("Error", "Token request failed: " \o
        (IF e.hasResponse /\ Truthy(e.data, "summary")
         THEN e.data.obj["summary"] ELSE e.message))

\* A variant that adds the lifetime in seconds to the clock in milliseconds.
obtainSaveSeconds(c, data, ms) ==
    LET c1 == [c EXCEPT !.accessToken = data.obj["access"]]
        c2 == IF Truthy(data, "refresh")
              THEN [c1 EXCEPT !.refreshToken = data.obj["refresh"]] ELSE c1
    IN  [c2 EXCEPT !.tokenExpiry = ms + data.obj["access_expires"]]

\* obtainAccessToken(): the writes after a successful token/new
obtainSave(c, data, ms) ==
    LET c1 == [c EXCEPT !.accessToken = data.obj["access"]]
        c2 == IF Truthy(data, "refresh")
              THEN [c1 EXCEPT !.refreshToken = data.obj["refresh"]] ELSE c1
    IN  [c2 EXCEPT !.tokenExpiry = ms + data.obj["access_expires"] * 1000]

obtainWrites(data) == IF Truthy(data, "refresh") THEN 3 ELSE 2

\* refreshAccessToken(): the writes after a successful token/refresh
refreshSave(c, data, ms) ==
    [c EXCEPT !.accessToken = data.obj["access"],
              !.tokenExpiry = ms + data.obj["access_expires"] * 1000]

\* A variant that does not look at the stored access token.
getAccessTokenBranchIgnoresStored(c, ms) ==
    IF c.refreshToken = "" THEN "obtain" ELSE "refresh"

\* getAccessToken() and refreshAccessToken(): which branch the stored state
\* selects
getAccessTokenBranch(c, ms) ==
    IF hasValidToken(c, ms) THEN "stored"
    ELSE IF c.refreshToken = "" THEN "obtain"
    ELSE "refresh"

(***************************************************************************)
(* The invocations.                                                        *)
(***************************************************************************)
NoRet == [kind |-> "none"]

Answer(resp, ms) == [resp |-> resp, at |-> ms]

\* The process: still running (or a library call with no process around
\* it), or ended with an exit code after printing to stdout and stderr.
NoProc == [code |-> 0 - 1, out |-> <<>>, err |-> <<>>]

\* No second invocation is running.
NoPeer == [pc |-> "none"]

Exited(code, out, err) == [code |-> code, out |-> out, err |-> err]

\* try { ... printSuccess(msg) } catch (error) { printError(error.message);
\* process.exit(1) }
Outcome(r, msg) ==
    IF r.kind = "value" THEN Exited(0, <<msg>>, <<>>)
    ELSE Exited(1, <<>>, <<r.message>>)

\* The commands of the nordigencom client that call apiRequest(), and the
\* resource command of the nordigen client.
ApiCommands == {"institutions list", "auth login"}

\* The commands of the nordigen client that delete a resource.
DeleteCommands == {"agreements delete", "requisitions delete", "payments delete"}

\* Where the call of token resolution returns to.
AwaitingToken(o) ==
    IF o \in ApiCommands THEN "apiRequest:77"
    ELSE IF o = "accounts get" THEN "accounts get:40"
    ELSE IF o \in DeleteCommands THEN "delete:194"
    ELSE "done"

\* What the operation has returned once token resolution has.
ReturnedToken(o, t) == IF AwaitingToken(o) = "done" THEN t ELSE NoRet

\* The request line and the Authorization header of a resource request.
ResourceCall(header) ==
    IF header = "" THEN "GET resource" ELSE "GET resource Authorization: " \o header

\* 'Authorization': `Bearer ${token}`
Bearer(token) == "Bearer " \o token

Idle ==
    /\ pc = "idle" /\ op = "none" /\ args = <<>> /\ pre = EmptyObj /\ t0 = 0
    /\ calls = <<>> /\ resps = <<>> /\ nWrites = 0 /\ tok = NoRet /\ ret = NoRet
    /\ proc = NoProc

Init ==
    /\ cli \in {"nordigen", "nordigencom"}
    /\ clock = StartClock
    /\ ticks = 0
    /\ configInstance = EmptyObj
    /\ config = ConfigDefaults
    /\ peer = NoPeer
    /\ Idle

\* The wall clock advances, also while a call is awaited.
Tick ==
    /\ ticks < MaxTicks
    /\ \E d \in TickMs : clock' = clock + d
    /\ ticks' = ticks + 1
    /\ UNCHANGED <<cli, peer, configInstance, config, pc, op, args, pre, t0, calls, resps,
                   nWrites, tok, ret, proc>>

\* The process ends; the next invocation starts from the persisted store.
Exit ==
    /\ pc \in {"done", "killed"}
    /\ pc' = "idle" /\ op' = "none" /\ args' = <<>> /\ pre' = EmptyObj /\ t0' = 0
    /\ calls' = <<>> /\ resps' = <<>> /\ nWrites' = 0 /\ tok' = NoRet /\ ret' = NoRet
    /\ proc' = NoProc
    /\ UNCHANGED <<cli, peer, clock, ticks, configInstance, config>>

\* ensureAuth(), up to its return or its await of api.refreshToken(),
\* called by operation o
ensureAuthStart(o) ==
    LET b == ensureAuthBranch(configInstance, clock)
    IN  /\ CASE b = "stored" ->
                  /\ tok' = Value(configInstance["auth"]["access_token"])
                  /\ calls' = <<>> /\ pc' = AwaitingToken(o)
             [] b = "refresh" ->
                  /\ tok' = NoRet
                  /\ calls' = <<"token/refresh">> /\ pc' = "ensureAuth:31"
             [] OTHER ->
                  /\ tok' = NotAuthenticated
                  /\ calls' = <<>> /\ pc' = AwaitingToken(o)
        /\ ret' = ReturnedToken(o, tok')

\* ensureAuth() called on its own
EnsureAuthCall ==
    /\ cli = "nordigen" /\ pc = "idle"
    /\ op' = "ensureAuth" /\ args' = <<>> /\ pre' = configInstance /\ t0' = clock /\ resps' = <<>>
    /\ nWrites' = 0
    /\ ensureAuthStart("ensureAuth")
    /\ UNCHANGED <<cli, peer, clock, ticks, configInstance, config, proc>>

\* A variant that acquires a new token with the stored credentials when the
\* refresh call fails.
EnsureAuthReturnAcquires ==
    /\ cli = "nordigen" /\ pc = "ensureAuth:31"
    /\ \E resp \in TokenRefreshOutcomes :
         LET r == request(resp)
         IN  /\ resps' = Append(resps, Answer(resp, clock))
             /\ IF r.kind = "value"
                THEN /\ configInstance' = ensureAuthSave(configInstance, r.val, clock)
                     /\ nWrites' = nWrites + 2
                     /\ tok' = Value(r.val.obj["access"])
                     /\ ret' = ReturnedToken(op, tok')
                     /\ pc' = AwaitingToken(op)
                     /\ UNCHANGED <<calls, args>>
                ELSE IF Has(configInstance, "auth", "secret_id")
                        /\ Has(configInstance, "auth", "secret_key")
                THEN /\ calls' = Append(calls, "token/new")
                     /\ args' = <<configInstance["auth"]["secret_id"],
                                  configInstance["auth"]["secret_key"]>>
                     /\ pc' = "login:57"
                     /\ UNCHANGED <<configInstance, nWrites, tok, ret>>
                ELSE /\ tok' = ReauthenticationRequired
                     /\ ret' = ReturnedToken(op, tok')
                     /\ pc' = AwaitingToken(op)
                     /\ UNCHANGED <<configInstance, nWrites, calls, args>>
    /\ UNCHANGED <<cli, peer, clock, ticks, config, op, pre, t0, proc>>

\* ensureAuth(), from the answer of api.refreshToken() on
EnsureAuthReturn ==
    /\ cli = "nordigen" /\ pc = "ensureAuth:31"
    /\ \E resp \in TokenRefreshOutcomes :
         LET r == request(resp)
         IN  /\ resps' = Append(resps, Answer(resp, clock))
             /\ IF r.kind = "value"
                THEN /\ configInstance' = ensureAuthSave(configInstance, r.val, clock)
                     /\ nWrites' = nWrites + 2
                     /\ tok' = Value(r.val.obj["access"])
                ELSE /\ tok' = ReauthenticationRequired
                     /\ UNCHANGED <<configInstance, nWrites>>
    /\ ret' = ReturnedToken(op, tok')
    /\ pc' = AwaitingToken(op)
    /\ UNCHANGED <<cli, peer, clock, ticks, config, op, args, pre, t0, calls, proc>>

\* `nordigen auth login`: login(secretId, secretKey), up to its await of
\* api.obtainToken()
LoginCall ==
    /\ cli = "nordigen" /\ pc = "idle"
    /\ \E cr \in Credentials : args' = cr
    /\ op' = "login" /\ pre' = configInstance /\ t0' = clock /\ resps' = <<>>
    /\ calls' = <<"token/new">> /\ pc' = "login:57"
    /\ UNCHANGED <<cli, peer, clock, ticks, configInstance, config, nWrites, tok, ret, proc>>

\* login(), from the answer of api.obtainToken() on, and the command's report
LoginReturn ==
    /\ cli = "nordigen" /\ pc = "login:57"
    /\ \E resp \in TokenNewOutcomes :
         LET r == request(resp)
         IN  /\ resps' = Append(resps, Answer(resp, clock))
             /\ IF r.kind = "value"
                THEN /\ configInstance' =
                           loginSave(configInstance, args[1], args[2], r.val, clock)
                     /\ nWrites' = nWrites + 6
                     /\ ret' = r
                ELSE /\ ret' = r
                     /\ UNCHANGED <<configInstance, nWrites>>
             /\ proc' = Outcome(r, "Credentials saved securely")
    /\ pc' = "done"
    /\ UNCHANGED <<cli, peer, clock, ticks, config, op, args, pre, t0, calls, tok>>

\* `nordigen auth logout`: logout()
Logout ==
    /\ cli = "nordigen" /\ pc = "idle"
    /\ op' = "logout" /\ pre' = configInstance /\ t0' = clock /\ resps' = <<>>
    /\ configInstance' = logoutStore(configInstance)
    /\ nWrites' = 1 /\ ret' = Value("") /\ pc' = "done"
    /\ proc' = Exited(0, <<"Logged out successfully">>, <<>>)
    /\ UNCHANGED <<cli, peer, clock, ticks, config, args, calls, tok>>

\* `nordigen config clear --yes`: clear()
ConfigClear ==
    /\ cli = "nordigen" /\ pc = "idle"
    /\ op' = "clear" /\ args' = <<"--yes">>
    /\ pre' = configInstance /\ t0' = clock /\ resps' = <<>>
    /\ configInstance' = clearStore(configInstance)
    /\ nWrites' = 1 /\ ret' = Value("") /\ pc' = "done"
    /\ proc' = Exited(0, <<"Configuration cleared">>, <<>>)
    /\ UNCHANGED <<cli, peer, clock, ticks, config, calls, tok>>

\* code.toUpperCase()
toUpperCase(code) ==
    CASE code = "gb" -> "GB"
      [] code = "de" -> "DE"
      [] OTHER -> code

\* `nordigen config set-country <code>`
ConfigSetCountry ==
    /\ cli = "nordigen" /\ pc = "idle"
    /\ \E code \in Countries :
         /\ args' = <<code>>
         /\ configInstance' = ConfSet(configInstance, "defaults", "country",
                                      toUpperCase(code))
         /\ proc' = Exited(0, <<"Default country set to " \o toUpperCase(code)>>, <<>>)
    /\ op' = "set-country" /\ pre' = configInstance /\ t0' = clock /\ resps' = <<>>
    /\ nWrites' = 1 /\ ret' = Value("") /\ pc' = "done"
    /\ UNCHANGED <<cli, peer, clock, ticks, config, calls, tok>>

\* `nordigen config set <key> <value>`, for the values the model types
ConfigSet ==
    /\ cli = "nordigen" /\ pc = "idle"
    /\ \E kv \in ConfigSetInputs :
         /\ args' = kv
         /\ configInstance' = ConfSet(configInstance, kv[1], kv[2], kv[3])
         /\ proc' = Exited(0, <<"Set " \o kv[1] \o "." \o kv[2]>>, <<>>)
    /\ op' = "set" /\ pre' = configInstance /\ t0' = clock /\ resps' = <<>>
    /\ nWrites' = 1 /\ ret' = Value("") /\ pc' = "done"
    /\ UNCHANGED <<cli, peer, clock, ticks, config, calls, tok>>

\* `nordigen config delete <key>`, for the keys the model types
ConfigDelete ==
    /\ cli = "nordigen" /\ pc = "idle"
    /\ \E k \in ConfigDeleteInputs :
         /\ args' = k
         /\ configInstance' = ConfDeleteKey(configInstance, k[1], k[2])
         /\ proc' = Exited(0, <<"Deleted " \o k[1] \o "." \o k[2]>>, <<>>)
    /\ op' = "delete" /\ pre' = configInstance /\ t0' = clock /\ resps' = <<>>
    /\ nWrites' = 1 /\ ret' = Value("") /\ pc' = "done"
    /\ UNCHANGED <<cli, peer, clock, ticks, config, calls, tok>>

NextNordigen ==
    \/ EnsureAuthCall
    \/ EnsureAuthReturn
    \/ LoginCall
    \/ LoginReturn
    \/ Logout
    \/ ConfigClear
    \/ ConfigSetCountry
    \/ ConfigSet
    \/ ConfigDelete

\* `nordigencom config set --secret-id <id> --secret-key <key>`; the command
\* returns normally on every path, so the process exits with code 0
ConfigSetCredentials ==
    /\ cli = "nordigencom" /\ pc = "idle"
    /\ \E id \in {""} \cup {cr[1] : cr \in Credentials},
          key \in {""} \cup {cr[2] : cr \in Credentials} :
         /\ args' = <<id, key>>
         /\ config' = [config EXCEPT
                          !.secretId = IF id # "" THEN id ELSE @,
                          !.secretKey = IF key # "" THEN key ELSE @]
         /\ nWrites' = (IF id # "" THEN 1 ELSE 0) + (IF key # "" THEN 1 ELSE 0)
         /\ proc' = Exited(0,
                (IF id # "" THEN <<"Secret ID set">> ELSE <<>>) \o
                (IF key # "" THEN <<"Secret Key set">> ELSE <<>>),
                IF id = "" /\ key = ""
                THEN <<"No options provided. Use --secret-id or --secret-key">>
                ELSE <<>>)
    /\ op' = "config set" /\ pre' = config /\ t0' = clock /\ resps' = <<>>
    /\ ret' = Value("") /\ pc' = "done"
    /\ UNCHANGED <<cli, peer, clock, ticks, configInstance, calls, tok>>

\* obtainAccessToken(), up to its throw or its await of axios.post(token/new),
\* called by operation o
ObtainCall(o) ==
    IF ~isConfigured(config)
    THEN /\ tok' = CredentialsNotConfigured
         /\ ret' = ReturnedToken(o, tok')
         /\ pc' = AwaitingToken(o)
         /\ UNCHANGED calls
    ELSE /\ calls' = Append(calls, "token/new")
         /\ pc' = "obtainAccessToken:18"
         /\ UNCHANGED <<tok, ret>>

\* getAccessToken(), up to its return, its throw or its first await, called
\* by operation o
getAccessTokenStart(o) ==
    LET b == getAccessTokenBranch(config, clock)
    IN  CASE b = "stored" ->
               /\ tok' = Value(config.accessToken)
               /\ ret' = ReturnedToken(o, tok')
               /\ calls' = <<>> /\ pc' = AwaitingToken(o)
          [] b = "refresh" ->
               /\ calls' = <<"token/refresh">>
               /\ pc' = "refreshAccessToken:47"
               /\ UNCHANGED <<tok, ret>>
          [] OTHER -> ObtainCall(o)

\* getAccessToken() called on its own
GetAccessTokenCall ==
    /\ cli = "nordigencom" /\ pc = "idle"
    /\ op' = "getAccessToken" /\ args' = <<>> /\ pre' = config /\ t0' = clock /\ resps' = <<>>
    /\ getAccessTokenStart("getAccessToken")
    /\ UNCHANGED <<cli, peer, clock, ticks, configInstance, config, nWrites, proc>>

\* A variant that gives up when the refresh call fails.
RefreshReturnGivesUp ==
    /\ cli = "nordigencom" /\ pc = "refreshAccessToken:47"
    /\ \E resp \in TokenRefreshOutcomes :
         LET r == axiosPost(resp)
         IN  /\ resps' = Append(resps, Answer(resp, clock))
             /\ IF r.kind = "value"
                THEN /\ config' = refreshSave(config, r.val, clock)
                     /\ nWrites' = nWrites + 2
                     /\ tok' = Value(r.val.obj["access"])
                ELSE /\ tok' = TokenRequestFailed(r)
                     /\ UNCHANGED <<config, nWrites>>
    /\ ret' = ReturnedToken(op, tok')
    /\ pc' = AwaitingToken(op)
    /\ UNCHANGED <<cli, peer, clock, ticks, configInstance, op, args, pre, t0, calls, proc>>

\* refreshAccessToken(), from the answer of axios.post(token/refresh) on
RefreshReturn ==
    /\ cli = "nordigencom" /\ pc = "refreshAccessToken:47"
    /\ \E resp \in TokenRefreshOutcomes :
         LET r == axiosPost(resp)
         IN  /\ resps' = Append(resps, Answer(resp, clock))
             /\ IF r.kind = "value"
                THEN /\ config' = refreshSave(config, r.val, clock)
                     /\ nWrites' = nWrites + 2
                     /\ tok' = Value(r.val.obj["access"])
                     /\ ret' = ReturnedToken(op, tok')
                     /\ pc' = AwaitingToken(op)
                     /\ UNCHANGED calls
                ELSE /\ ObtainCall(op)
                     /\ UNCHANGED <<config, nWrites>>
    /\ UNCHANGED <<cli, peer, clock, ticks, configInstance, op, args, pre, t0, proc>>

\* A variant that drops the stored access token when the acquisition fails.
ObtainReturnForgetsToken ==
    /\ cli = "nordigencom" /\ pc = "obtainAccessToken:18"
    /\ \E resp \in TokenNewOutcomes :
         LET r == axiosPost(resp)
         IN  /\ resps' = Append(resps, Answer(resp, clock))
             /\ IF r.kind = "value"
                THEN /\ config' = obtainSave(config, r.val, clock)
                     /\ nWrites' = nWrites + obtainWrites(r.val)
                     /\ tok' = Value(r.val.obj["access"])
                ELSE /\ tok' = TokenRequestFailed(r)
                     /\ config' = [config EXCEPT !.accessToken = ""]
                     /\ nWrites' = nWrites + 1
    /\ ret' = ReturnedToken(op, tok')
    /\ pc' = AwaitingToken(op)
    /\ UNCHANGED <<cli, peer, clock, ticks, configInstance, op, args, pre, t0, calls, proc>>

\* obtainAccessToken(), from the answer of axios.post(token/new) on
ObtainReturn ==
    /\ cli = "nordigencom" /\ pc = "obtainAccessToken:18"
    /\ \E resp \in TokenNewOutcomes :
         LET r == axiosPost(resp)
         IN  /\ resps' = Append(resps, Answer(resp, clock))
             /\ IF r.kind = "value"
                THEN /\ config' = obtainSave(config, r.val, clock)
                     /\ nWrites' = nWrites + obtainWrites(r.val)
                     /\ tok' = Value(r.val.obj["access"])
                ELSE /\ tok' = TokenRequestFailed(r)
                     /\ UNCHANGED <<config, nWrites>>
    /\ ret' = ReturnedToken(op, tok')
    /\ pc' = AwaitingToken(op)
    /\ UNCHANGED <<cli, peer, clock, ticks, configInstance, op, args, pre, t0, calls, proc>>

NextNordigencom ==
    \/ ConfigSetCredentials
    \/ GetAccessTokenCall
    \/ RefreshReturn
    \/ ObtainReturn

Next ==
    \/ Tick
    \/ Exit
    \/ NextNordigen
    \/ NextNordigencom

Spec == Init /\ [][Next]_vars

(***************************************************************************)
(* The commands that send a resource request: `nordigencom institutions    *)
(* list` and `nordigencom auth login` (both through listInstitutions() and *)
(* apiRequest()), and `nordigen accounts get` (ensureAuth(), createClient()*)
(* and NordigenAPI.request()).                                             *)
(***************************************************************************)
ApiOutcomes == ResourceOutcomes \cup {SetupFailure}

\* requireAuth(), and the guard at the head of `auth login`
NotConfiguredMessage(o) ==
    IF o = "auth login" THEN "Please configure your credentials first:"
    ELSE "Nordigen credentials not configured."

\* What the command prints when its request has succeeded.
SuccessMessage(o) ==
    IF o = "auth login" THEN "Successfully authenticated with Nordigen"
    ELSE IF o = "accounts get" THEN "Account retrieved"
    ELSE IF o = "agreements delete" THEN "Agreement deleted successfully"
    ELSE IF o = "requisitions delete" THEN "Requisition deleted successfully"
    ELSE IF o = "payments delete" THEN "Payment deleted successfully"
    ELSE "result(s)"

\* The command, up to its exit or the first await of apiRequest()
ApiCommand(o) ==
    /\ cli = "nordigencom" /\ pc = "idle"
    /\ op' = o /\ args' = <<>> /\ pre' = config /\ t0' = clock /\ resps' = <<>>
    /\ IF ~isConfigured(config)
       THEN /\ proc' = Exited(1, <<>>, <<NotConfiguredMessage(o)>>)
            /\ pc' = "done"
            /\ UNCHANGED <<calls, tok, ret>>
       ELSE /\ getAccessTokenStart(o)
            /\ UNCHANGED proc
    /\ UNCHANGED <<cli, peer, clock, ticks, configInstance, config, nWrites>>

\* `nordigencom institutions list`
InstitutionsList == ApiCommand("institutions list")

\* `nordigencom auth login`
AuthLogin == ApiCommand("auth login")

\* apiRequest(), from the return of getAccessToken() to the await of axios();
\* an error of getAccessToken() passes through to the command's catch
ApiRequestSend ==
    /\ cli = "nordigencom" /\ pc = "apiRequest:77"
    /\ IF tok.kind = "value"
       THEN /\ calls' = Append(calls, ResourceCall(Bearer(tok.val)))
            /\ pc' = "apiRequest:93"
            /\ UNCHANGED <<ret, proc>>
       ELSE /\ ret' = tok
            /\ proc' = Outcome(tok, SuccessMessage(op))
            /\ pc' = "done"
            /\ UNCHANGED calls
    /\ UNCHANGED <<cli, peer, clock, ticks, configInstance, config, op, args, pre, t0,
                   resps, nWrites, tok>>

\* A variant that refreshes the token and sends the request again when the
\* answer is 401.
ApiRequestReturnRetries ==
    /\ cli = "nordigencom" /\ pc = "apiRequest:93"
    /\ \E resp \in ApiOutcomes :
         LET r == axiosPost(resp)
         IN  /\ resps' = Append(resps, Answer(resp, clock))
             /\ IF resp.net = "response" /\ resp.status = 401
                THEN /\ calls' = Append(calls, "token/refresh")
                     /\ pc' = "refreshAccessToken:47"
                     /\ UNCHANGED <<ret, proc>>
                ELSE /\ ret' = IF r.kind = "value" THEN r ELSE handleApiError(r)
                     /\ proc' = Outcome(ret', SuccessMessage(op))
                     /\ pc' = "done"
                     /\ UNCHANGED calls
    /\ UNCHANGED <<cli, peer, clock, ticks, configInstance, config, op, args, pre, t0,
                   nWrites, tok>>

\* apiRequest(), from the answer of axios() on, and the command's report
ApiRequestReturn ==
    /\ cli = "nordigencom" /\ pc = "apiRequest:93"
    /\ \E resp \in ApiOutcomes :
         LET r == axiosPost(resp)
         IN  /\ resps' = Append(resps, Answer(resp, clock))
             /\ ret' = IF r.kind = "value" THEN r ELSE handleApiError(r)
             /\ proc' = Outcome(ret', SuccessMessage(op))
    /\ pc' = "done"
    /\ UNCHANGED <<cli, peer, clock, ticks, configInstance, config, op, args, pre, t0,
                   calls, nWrites, tok>>

\* A variant that takes the refresh token from the store.
getStoredTokenRefresh(c) ==
    IF FalsyStr(c, "auth", "refresh_token") THEN "" ELSE c["auth"]["refresh_token"]

\* getStoredToken(): config.get('auth.access_token') || null
getStoredToken(c) ==
    IF FalsyStr(c, "auth", "access_token") THEN "" ELSE c["auth"]["access_token"]

\* if (auth && this.accessToken) headers['Authorization'] = ...
AuthorizationHeader(accessToken) ==
    IF accessToken = "" THEN "" ELSE Bearer(accessToken)

\* `nordigen accounts get <account-id>`, up to the first await of ensureAuth()
AccountsGet ==
    /\ cli = "nordigen" /\ pc = "idle"
    /\ op' = "accounts get" /\ args' = <<>> /\ pre' = configInstance /\ t0' = clock
    /\ resps' = <<>> /\ nWrites' = 0
    /\ ensureAuthStart("accounts get")
    /\ UNCHANGED <<cli, peer, clock, ticks, configInstance, config, proc>>

\* The command, from the return of ensureAuth() to the await of fetch():
\* createClient() takes the token from the store
AccountsGetSend ==
    /\ cli = "nordigen" /\ pc = "accounts get:40"
    /\ IF tok.kind = "value"
       THEN /\ calls' = Append(calls,
                   ResourceCall(AuthorizationHeader(getStoredToken(configInstance))))
            /\ pc' = "accounts get:42"
            /\ UNCHANGED <<ret, proc>>
       ELSE /\ ret' = tok
            /\ proc' = Outcome(tok, SuccessMessage(op))
            /\ pc' = "done"
            /\ UNCHANGED calls
    /\ UNCHANGED <<cli, peer, clock, ticks, configInstance, config, op, args, pre, t0,
                   resps, nWrites, tok>>

\* The command, from the answer of fetch() on
AccountsGetReturn ==
    /\ cli = "nordigen" /\ pc = "accounts get:42"
    /\ \E resp \in ResourceOutcomes :
         /\ resps' = Append(resps, Answer(resp, clock))
         /\ ret' = request(resp)
         /\ proc' = Outcome(ret', SuccessMessage(op))
    /\ pc' = "done"
    /\ UNCHANGED <<cli, peer, clock, ticks, configInstance, config, op, args, pre, t0,
                   calls, nWrites, tok>>

NextCli ==
    \/ Tick
    \/ Exit
    \/ LoginCall
    \/ LoginReturn
    \/ Logout
    \/ AccountsGet
    \/ EnsureAuthReturn
    \/ AccountsGetSend
    \/ AccountsGetReturn
    \/ ConfigSetCredentials
    \/ InstitutionsList
    \/ AuthLogin
    \/ RefreshReturn
    \/ ObtainReturn
    \/ ApiRequestSend
    \/ ApiRequestReturn

SpecCli == Init /\ [][NextCli]_vars

(***************************************************************************)
(* The nordigencom client on its own, with every call it awaits answered:  *)
(* a promise that is settled has its continuation run, so each step that   *)
(* processes an answer or follows a return is taken once it is enabled.    *)
(***************************************************************************)
InitApi == Init /\ cli = "nordigencom"

NextApi ==
    \/ Tick
    \/ Exit
    \/ ConfigSetCredentials
    \/ InstitutionsList
    \/ AuthLogin
    \/ RefreshReturn
    \/ ObtainReturn
    \/ ApiRequestSend
    \/ ApiRequestReturn

FairApi ==
    /\ WF_vars(RefreshReturn)
    /\ WF_vars(ObtainReturn)
    /\ WF_vars(ApiRequestSend)
    /\ WF_vars(ApiRequestReturn)

SpecApi == InitApi /\ [][NextApi]_vars /\ FairApi

(***************************************************************************)
(* NordigenAPI.request() against every answer a resource endpoint can      *)
(* give: each status with a JSON or a non-JSON content type and each body. *)
(***************************************************************************)
Statuses == {200, 204, 299, 300, 401, 429, 500}
Summaries == {"Invalid token"}
Details == {"Token is invalid or expired"}
Messages == {"Something went wrong"}

ErrorObjects ==
    {f \in UNION {[D -> Summaries \cup Details \cup Messages \cup {""}] :
                     D \in SUBSET {"summary", "detail", "message"}} :
        /\ "summary" \in DOMAIN f => f["summary"] \in Summaries \cup {""}
        /\ "detail" \in DOMAIN f => f["detail"] \in Details
        /\ "message" \in DOMAIN f => f["message"] \in Messages}

Bodies == {Obj(f) : f \in ErrorObjects} \cup {NullBody, TextBody}

FetchOutcomes ==
    {Response(st, ct, b) : st \in Statuses, ct \in {"json", "html"}, b \in Bodies}
    \cup {NetworkFailure}

InitRequest ==
    /\ cli = "nordigen"
    /\ clock = StartClock
    /\ ticks = 0
    /\ configInstance = EmptyObj
    /\ config = ConfigDefaults
    /\ peer = NoPeer
    /\ Idle

\* NordigenAPI.request(), up to its await of fetch()
RequestCall ==
    /\ cli = "nordigen" /\ pc = "idle"
    /\ op' = "request" /\ pre' = configInstance /\ t0' = clock /\ resps' = <<>>
    /\ calls' = <<"resource">> /\ pc' = "request:81"
    /\ UNCHANGED <<cli, peer, clock, ticks, configInstance, config, args, nWrites, tok, ret,
                   proc>>

\* NordigenAPI.request(), from the answer of fetch() on
RequestReturn ==
    /\ cli = "nordigen" /\ pc = "request:81"
    /\ \E resp \in FetchOutcomes :
         /\ resps' = Append(resps, Answer(resp, clock))
         /\ ret' = request(resp)
    /\ pc' = "done"
    /\ UNCHANGED <<cli, peer, clock, ticks, configInstance, config, op, args, pre, t0,
                   calls, nWrites, tok, proc>>

NextRequest ==
    \/ RequestCall
    \/ RequestReturn
    \/ Exit

SpecRequest == InitRequest /\ [][NextRequest]_vars

(***************************************************************************)
(* The properties.  They speak of the states an invocation goes through:   *)
(* `pre` and `t0` are the store and the clock at its start, `calls` and    *)
(* `resps` its network traffic, `tok` and `ret` its outcome.               *)
(***************************************************************************)
\* A token with expiry `exp` (epoch seconds) expires more than 60 s after `ms`.
SecondsLeftOver60(exp, ms) == exp * 1000 > ms + 60000

\* An access token is stored, with an expiry more than 60 s ahead.
StoredAccessUsable(c, ms) ==
    /\ Has(c, "auth", "access_token") /\ c["auth"]["access_token"] # ""
    /\ Has(c, "auth", "access_expires")
    /\ SecondsLeftOver60(c["auth"]["access_expires"], ms)

StoredRefreshUsable(c, ms) ==
    /\ Has(c, "auth", "refresh_token") /\ c["auth"]["refresh_token"] # ""
    /\ Has(c, "auth", "refresh_expires")
    /\ SecondsLeftOver60(c["auth"]["refresh_expires"], ms)

\* The same for the nordigencom store (expiry in epoch milliseconds).
StoredTokenUsable(c, ms) == c.accessToken # "" /\ c.tokenExpiry > ms + 60000

\* The server answered the call with a 2xx status.
Accepted(a) == a.resp.net = "response" /\ a.resp.status >= 200 /\ a.resp.status < 300

(* C1: whenever the stored access token is valid (stored, expiry more than
   60 s after now), ensureAuth() and getAccessToken() return exactly the
   stored access token, make no network call and write nothing. *)
C1_ValidTokenReturnedUntouched ==
    /\ (op = "ensureAuth" /\ StoredAccessUsable(pre, t0)) =>
          /\ pc = "done"
          /\ tok = Value(pre["auth"]["access_token"])
          /\ calls = <<>> /\ resps = <<>>
          /\ nWrites = 0 /\ configInstance = pre
    /\ (op = "getAccessToken" /\ StoredTokenUsable(pre, t0)) =>
          /\ pc = "done"
          /\ tok = Value(pre.accessToken)
          /\ calls = <<>> /\ resps = <<>>
          /\ nWrites = 0 /\ config = pre

C1_Witness ==
    /\ op = "ensureAuth" /\ pc = "done" /\ StoredAccessUsable(pre, t0)
    /\ t0 > StartClock /\ tok.kind = "value"

(* C2: isAccessTokenValid() and hasValidToken() are true if and only if an
   access token is stored and its stored expiry is strictly more than 60 s
   after now; an expiry exactly 60 s ahead, a missing or empty token and a
   missing or zero expiry give false, and token resolution then does not
   use the stored token but goes down the refresh path. *)
C2_ValidIffExpiryStrictlyOver60 ==
    /\ cli = "nordigen" =>
          /\ isAccessTokenValid(configInstance, clock)
                <=> StoredAccessUsable(configInstance, clock)
          /\ (/\ Has(configInstance, "auth", "access_expires")
              /\ configInstance["auth"]["access_expires"] = NowSec(clock) + 60)
                => ~isAccessTokenValid(configInstance, clock)
          /\ (op = "ensureAuth" /\ ~StoredAccessUsable(pre, t0)) =>
                IF StoredRefreshUsable(pre, t0)
                THEN calls = <<"token/refresh">>
                ELSE calls = <<>> /\ tok = NotAuthenticated
    /\ cli = "nordigencom" =>
          /\ hasValidToken(config, clock) <=> StoredTokenUsable(config, clock)
          /\ config.tokenExpiry = clock + 60000 => ~hasValidToken(config, clock)
          /\ (op = "getAccessToken" /\ ~StoredTokenUsable(pre, t0)) =>
                IF pre.refreshToken # ""
                THEN Len(calls) >= 1 /\ calls[1] = "token/refresh"
                ELSE tok.kind # "value" \/ calls = <<"token/new">>

C2_Witness ==
    /\ op = "ensureAuth"
    /\ Has(pre, "auth", "access_token") /\ pre["auth"]["access_token"] # ""
    /\ Has(pre, "auth", "access_expires")
    /\ pre["auth"]["access_expires"] = NowSec(t0) + 60
    /\ calls = <<"token/refresh">>

\* The store without its access token and access expiry.
WithoutAccess(c) ==
    ConfDeleteKey(ConfDeleteKey(c, "auth", "access_token"), "auth", "access_expires")

(* C3: with an invalid access token and a valid refresh token that the server
   accepts, ensureAuth() and getAccessToken() make exactly one refresh call
   and no acquisition call, return the new access token, and change only the
   stored access token and access expiry: refresh token, refresh expiry and
   credentials stay as they were. *)
C3_RefreshUpdatesOnlyAccess ==
    /\ (op = "ensureAuth" /\ ~StoredAccessUsable(pre, t0)
                          /\ StoredRefreshUsable(pre, t0)) =>
          /\ calls = <<"token/refresh">>
          /\ (pc = "done" /\ Accepted(resps[1])) =>
                LET data == resps[1].resp.body.obj
                IN  /\ Len(resps) = 1
                    /\ tok = Value(data["access"])
                    /\ configInstance["auth"]["access_token"] = data["access"]
                    /\ configInstance["auth"]["access_expires"] =
                          (resps[1].at \div 1000) + data["access_expires"]
                    /\ WithoutAccess(configInstance) = WithoutAccess(pre)
                    /\ \A k \in {"refresh_token", "refresh_expires", "secret_id",
                                 "secret_key"} :
                          /\ Has(configInstance, "auth", k) <=> Has(pre, "auth", k)
                          /\ Has(pre, "auth", k) =>
                                configInstance["auth"][k] = pre["auth"][k]
    /\ (op = "getAccessToken" /\ ~StoredTokenUsable(pre, t0)
                              /\ pre.refreshToken # "") =>
          /\ Len(calls) >= 1 /\ calls[1] = "token/refresh"
          /\ (Len(resps) >= 1 /\ Accepted(resps[1])) =>
                LET data == resps[1].resp.body.obj
                IN  /\ pc = "done"
                    /\ calls = <<"token/refresh">> /\ Len(resps) = 1
                    /\ tok = Value(data["access"])
                    /\ config = [pre EXCEPT
                                    !.accessToken = data["access"],
                                    !.tokenExpiry = resps[1].at
                                                    + data["access_expires"] * 1000]

C3_Witness ==
    /\ op = "ensureAuth" /\ pc = "done"
    /\ Has(pre, "auth", "access_token") /\ Has(pre, "auth", "secret_id")
    /\ ~StoredAccessUsable(pre, t0) /\ StoredRefreshUsable(pre, t0)
    /\ Accepted(resps[1])
    /\ configInstance["auth"]["access_token"] # pre["auth"]["access_token"]

\* lib/auth: client id and secret are in the store.
CredentialsStored(c) ==
    /\ Has(c, "auth", "secret_id") /\ c["auth"]["secret_id"] # ""
    /\ Has(c, "auth", "secret_key") /\ c["auth"]["secret_key"] # ""

\* ensureAuth() is entered with no usable token but with credentials.
OnlyCredentialsLeft ==
    /\ op = "ensureAuth"
    /\ ~StoredAccessUsable(pre, t0) /\ ~StoredRefreshUsable(pre, t0)
    /\ CredentialsStored(pre)

(* C4, as claimed: with an expired access token, an expired or absent
   refresh token and credentials in the store, ensureAuth() of lib/auth makes
   exactly one token/new call, stores the result and returns the acquired
   access token. *)
C4_Original_AcquiresWithCredentials ==
    OnlyCredentialsLeft =>
        /\ calls = <<"token/new">>
        /\ pc = "done" => tok.kind = "value"

(* C4, amended: in that situation ensureAuth() of lib/auth makes no network
   call at all, leaves the store unchanged and raises 'Not authenticated';
   the stored credentials are not used. *)
C4_NoAcquisitionInEnsureAuth ==
    OnlyCredentialsLeft =>
        /\ pc = "done"
        /\ calls = <<>> /\ resps = <<>>
        /\ tok = NotAuthenticated
        /\ nWrites = 0 /\ configInstance = pre

C4_Witness ==
    /\ OnlyCredentialsLeft /\ pc = "done"
    /\ Has(pre, "auth", "access_token") /\ pre["auth"]["access_token"] # ""
    /\ Has(pre, "auth", "refresh_token") /\ pre["auth"]["refresh_token"] # ""
    /\ Has(pre, "auth", "refresh_expires")
    /\ tok.kind = "error"

\* How often endpoint `ep` occurs in the sequence `cs`.
Count(cs, ep) == Cardinality({i \in 1..Len(cs) : cs[i] = ep})

(* C5: in src/api.js, with an invalid access token and stored credentials,
   getAccessToken() makes exactly one acquisition call: directly (no refresh
   call) when no refresh token is stored, and after exactly one refresh call
   when a stored refresh token is rejected; when the acquisition succeeds it
   returns the acquired token. *)
C5_OneAcquisitionAfterRefreshFailure ==
    (op = "getAccessToken" /\ ~StoredTokenUsable(pre, t0)
                           /\ pre.secretId # "" /\ pre.secretKey # "") =>
        /\ pre.refreshToken = "" => calls = <<"token/new">>
        /\ (pre.refreshToken # "" /\ Len(resps) >= 1 /\ ~Accepted(resps[1])) =>
              calls = <<"token/refresh", "token/new">>
        /\ Count(calls, "token/new") <= 1 /\ Count(calls, "token/refresh") <= 1
        /\ (pc = "done" /\ calls[Len(calls)] = "token/new") =>
              /\ Len(resps) = Len(calls)
              /\ Accepted(resps[Len(resps)]) =>
                    tok = Value(resps[Len(resps)].resp.body.obj["access"])

C5_Witness ==
    /\ op = "getAccessToken" /\ pc = "done"
    /\ pre.accessToken # "" /\ ~StoredTokenUsable(pre, t0)
    /\ calls = <<"token/refresh", "token/new">>
    /\ resps[1].resp = Refusal /\ Accepted(resps[2])
    /\ tok.kind = "value"

\* getAccessToken() is entered with credentials and no token at all.
CredentialsAndNoToken ==
    /\ op = "getAccessToken"
    /\ pre.secretId # "" /\ pre.secretKey # ""
    /\ pre.accessToken = "" /\ pre.refreshToken = ""

\* The fields of the nordigencom store that hold a time.
TimeFields == {"tokenExpiry"}

(* C6, as claimed: with valid stored credentials and no token,
   getAccessToken() makes exactly one acquisition call and persists both
   returned tokens, each with an expiry of call time + server ttl: the access
   expiry from access_expires and the refresh expiry from refresh_expires. *)
C6_Original_BothExpiriesPersisted ==
    CredentialsAndNoToken =>
        /\ calls = <<"token/new">>
        /\ (pc = "done" /\ Accepted(resps[1])) =>
              LET data == resps[1].resp.body.obj
                  times == {t0, resps[1].at}
              IN  /\ config.accessToken = data["access"]
                  /\ config.refreshToken = data["refresh"]
                  /\ \E t \in times :
                        config.tokenExpiry = t + data["access_expires"] * 1000
                  /\ \E k \in TimeFields, t \in times :
                        \/ config[k] = t + data["refresh_expires"] * 1000
                        \/ config[k] = (t \div 1000) + data["refresh_expires"]

(* C6, amended: with valid stored credentials and no token, getAccessToken()
   makes exactly one acquisition call, persists both returned tokens and one
   expiry, that of the access token, computed as the time the answer is
   processed + access_expires (in milliseconds); refresh_expires is not
   persisted, and no other field changes. *)
C6_AcquisitionPersistsTokensAndAccessExpiry ==
    CredentialsAndNoToken =>
        /\ calls = <<"token/new">>
        /\ (pc = "done" /\ Accepted(resps[1])) =>
              LET data == resps[1].resp.body.obj
              IN  /\ Len(resps) = 1
                  /\ tok = Value(data["access"])
                  /\ config = [pre EXCEPT
                                  !.accessToken = data["access"],
                                  !.refreshToken = data["refresh"],
                                  !.tokenExpiry = resps[1].at
                                                  + data["access_expires"] * 1000]

C6_Witness ==
    /\ CredentialsAndNoToken /\ pc = "done" /\ Accepted(resps[1])
    /\ resps[1].at > t0
    /\ resps[1].resp.body.obj["refresh_expires"]
          # resps[1].resp.body.obj["access_expires"]
    /\ config.refreshToken # ""

(* C7: login(secretId, secretKey) makes exactly one acquisition call.  When
   it succeeds the store holds the given credentials, the returned tokens
   and expiries of now + the returned lifetimes, so that ensureAuth() then
   returns the returned access token and isAccessTokenValid() is true (for
   a lifetime above 60 s).  When it fails login raises and the store is as
   it was. *)
C7_LoginStoresOrLeavesUntouched ==
    op = "login" =>
        /\ calls = <<"token/new">>
        /\ pc = "done" =>
              /\ Len(resps) = 1
              /\ IF Accepted(resps[1])
                 THEN LET data == resps[1].resp.body.obj
                          now == resps[1].at \div 1000
                          auth == configInstance["auth"]
                      IN  /\ ret.kind = "value" /\ ret.val.obj = data
                          /\ auth["secret_id"] = args[1]
                          /\ auth["secret_key"] = args[2]
                          /\ auth["access_token"] = data["access"]
                          /\ auth["refresh_token"] = data["refresh"]
                          /\ auth["access_expires"] = now + data["access_expires"]
                          /\ auth["refresh_expires"] = now + data["refresh_expires"]
                          /\ Section(configInstance, "defaults") = Section(pre, "defaults")
                          /\ data["access_expires"] > 60 =>
                                /\ isAccessTokenValid(configInstance, resps[1].at)
                                /\ ensureAuthBranch(configInstance, resps[1].at)
                                      = "stored"
                 ELSE /\ ret.kind = "error"
                      /\ nWrites = 0 /\ configInstance = pre

C7_Witness ==
    /\ op = "login" /\ pc = "done" /\ Accepted(resps[1])
    /\ resps[1].at > t0
    /\ Has(pre, "auth", "access_token")
    /\ pre["auth"]["access_token"] # configInstance["auth"]["access_token"]
    /\ Has(pre, "defaults", "country")

AuthKeys ==
    {"secret_id", "secret_key", "access_token", "refresh_token", "access_expires",
     "refresh_expires"}
DefaultsKeys == {"country", "institution_id"}

\* No auth field is left in store c.
NoAuthFields(c) == \A k \in AuthKeys : ~Has(c, "auth", k)

\* The non-auth fields of store c are those of store d.
SameDefaults(c, d) ==
    \A k \in DefaultsKeys :
        /\ Has(c, "defaults", k) <=> Has(d, "defaults", k)
        /\ Has(d, "defaults", k) => c["defaults"][k] = d["defaults"][k]

(* C8: logout() removes the whole auth sub-record (credentials, tokens,
   expiries) and leaves defaults.country and defaults.institution_id as they
   were; afterwards isAccessTokenValid(), isRefreshTokenValid() and
   isAuthenticated() are false and ensureAuth() raises 'Not authenticated'
   without a network call. *)
C8_LogoutRemovesAuthOnly ==
    /\ op = "logout" =>
          /\ pc = "done" /\ calls = <<>>
          /\ NoAuthFields(configInstance) /\ "auth" \notin DOMAIN configInstance
          /\ SameDefaults(configInstance, pre)
          /\ ~isAccessTokenValid(configInstance, clock)
          /\ ~isRefreshTokenValid(configInstance, clock)
          /\ ~isAuthenticated(configInstance, clock)
          /\ ensureAuthBranch(configInstance, clock) = "unauthenticated"
    /\ (op = "ensureAuth" /\ NoAuthFields(pre)) =>
          /\ pc = "done" /\ calls = <<>> /\ resps = <<>>
          /\ tok = NotAuthenticated

C8_Witness ==
    /\ op = "logout" /\ pc = "done"
    /\ isAccessTokenValid(pre, t0) /\ isRefreshTokenValid(pre, t0)
    /\ CredentialsStored(pre)
    /\ Has(pre, "defaults", "country")

(* C9, as claimed: clear() of lib/config removes all auth-related fields and
   leaves previously set non-auth fields, such as the default country set
   with `config set-country`, unchanged. *)
C9_Original_ClearKeepsDefaults ==
    op = "clear" =>
        /\ NoAuthFields(configInstance)
        /\ SameDefaults(configInstance, pre)

(* C9, amended: clear() of lib/config removes every field of the store: all
   auth-related fields and the non-auth fields (defaults.country,
   defaults.institution_id) as well. *)
C9_ClearRemovesEverything ==
    op = "clear" =>
        /\ pc = "done" /\ calls = <<>>
        /\ NoAuthFields(configInstance)
        /\ \A k \in DefaultsKeys : ~Has(configInstance, "defaults", k)
        /\ DOMAIN configInstance = {}

C9_Witness ==
    /\ op = "clear" /\ pc = "done"
    /\ Has(pre, "auth", "access_token") /\ CredentialsStored(pre)
    /\ Has(pre, "defaults", "country") /\ pre["defaults"]["country"] = "GB"

\* The answer to the request, and what its body decodes to: JSON under a
\* JSON content type, text otherwise.
Answered == resps[1].resp
Decodes(a) == ~(a.ctype = "json" /\ a.body.kind = "text")
Decoded(a) == IF a.ctype = "json" THEN a.body ELSE TextBody
NonEmptyField(data, f) ==
    data.kind = "object" /\ f \in DOMAIN data.obj /\ data.obj[f] # ""
StatusLine(a) == "HTTP " \o ToString(a.status) \o ": " \o StatusText(a.status)

(* C10, as claimed: for every non-2xx response NordigenAPI.request() raises
   an error whose status is the HTTP status and whose message is the body's
   summary, else its detail, else its message, else 'HTTP <status>:
   <statusText>', and never returns the body; for a 2xx response it returns
   the decoded body. *)
C10_Original_SummaryDetailMessage ==
    (op = "request" /\ pc = "done" /\ Answered.net = "response") =>
        LET a == Answered
            data == Decoded(a)
        IN  IF a.status >= 200 /\ a.status < 300
            THEN ret = Value(data)
            ELSE /\ ret.kind = "error"
                 /\ "status" \in DOMAIN ret /\ ret.status = a.status
                 /\ ret.message =
                       IF NonEmptyField(data, "summary") THEN data.obj["summary"]
                       ELSE IF NonEmptyField(data, "detail") THEN data.obj["detail"]
                       ELSE IF NonEmptyField(data, "message") THEN data.obj["message"]
                       ELSE StatusLine(a)

(* C10, amended: for every non-2xx response NordigenAPI.request() raises an
   error and never returns the body.  When the body decodes to a JSON object
   or is text, the error's status is the HTTP status and its message is the
   body's summary, else its detail, else 'HTTP <status>: <statusText>'; the
   body's message field is not consulted.  A body that is JSON null or does
   not decode raises an error without a status.  For a 2xx response whose
   body decodes it returns the decoded body. *)
C10_ErrorFromSummaryOrDetail ==
    (op = "request" /\ pc = "done" /\ Answered.net = "response") =>
        LET a == Answered
            data == Decoded(a)
            ok == a.status >= 200 /\ a.status < 300
        IN  /\ ret.kind = "value" => ok
            /\ ~ok => ret.kind = "error"
            /\ (~ok /\ Decodes(a) /\ data.kind # "null") =>
                  /\ "status" \in DOMAIN ret /\ ret.status = a.status
                  /\ ret.message =
                        IF NonEmptyField(data, "summary") THEN data.obj["summary"]
                        ELSE IF NonEmptyField(data, "detail") THEN data.obj["detail"]
                        ELSE StatusLine(a)
            /\ (~ok /\ ~(Decodes(a) /\ data.kind # "null")) =>
                  "status" \notin DOMAIN ret
            /\ (ok /\ Decodes(a)) => ret = Value(data)

C10_Witness ==
    /\ op = "request" /\ pc = "done" /\ Answered.net = "response"
    /\ Answered.status = 401 /\ Answered.ctype = "json"
    /\ Answered.body.kind = "object"
    /\ DOMAIN Answered.body.obj = {"message"}
    /\ ret.kind = "error" /\ ret.message = "HTTP 401: Unauthorized"

\* A call that is not a call of a token endpoint is a resource request.
IsResource(c) == c \notin {"token/new", "token/refresh"}

\* The invocation has ended after its resource request was answered.
ResourceAnswered ==
    /\ pc = "done" /\ calls # <<>> /\ IsResource(calls[Len(calls)])
    /\ Len(resps) = Len(calls)

\* The answer to the resource request.
ResourceAnswer == resps[Len(resps)].resp

\* The message consists of the words, alone or after one of the prefixes
\* the clients put before a server's words.
MessagePrefixes ==
    {"", "API Error (401): ", "Token request failed: ", "HTTP 401: ",
     "Authentication failed: "}
Mentions(msg, words) == \E p \in MessagePrefixes : msg = p \o words

(* C11, as claimed: when a resource call made through apiRequest() receives
   status 401 with the body {"summary": "Invalid token"}, the error raised
   to the caller has a message that contains "Invalid token". *)
C11_Original_MessageHasSummary ==
    (op \in ApiCommands /\ ResourceAnswered /\ ResourceAnswer = InvalidToken) =>
        /\ ret.kind = "error"
        /\ Mentions(ret.message, "Invalid token")

(* C11, amended: when a resource call made through apiRequest() receives
   status 401 with the body {"summary": "Invalid token"}, the error raised
   to the caller is a plain Error with the fixed message 'Authentication
   failed. Run: nordigencom auth login', which is what the command prints
   before it exits with code 1; the body's summary is not part of the
   message and the error carries no status.  The summary is the message,
   and 401 the status, of the error NordigenAPI.request() raises for the
   same answer. *)
C11_UnauthorizedHasFixedMessage ==
    /\ (op \in ApiCommands /\ ResourceAnswered /\ ResourceAnswer = InvalidToken) =>
          /\ ret = Raised("Error", "Authentication failed. Run: nordigencom auth login")
          /\ ~Mentions(ret.message, "Invalid token")
          /\ "status" \notin DOMAIN ret
          /\ proc = Exited(1, <<>>, <<"Authentication failed. Run: nordigencom auth login">>)
    /\ (op = "accounts get" /\ ResourceAnswered /\ ResourceAnswer = InvalidToken) =>
          /\ ret.kind = "error" /\ ret.message = "Invalid token"
          /\ ret.status = 401

C11_Witness ==
    /\ op = "institutions list" /\ ResourceAnswered /\ ResourceAnswer = InvalidToken
    /\ ret.kind = "error" /\ proc.code = 1

\* The commands that go through apiRequest() or NordigenAPI.request().
RequestCommands == ApiCommands \cup {"accounts get"}

\* The command got as far as calling apiRequest(), or ensureAuth() and
\* request(), and that call has ended.
RequestEnded == op \in RequestCommands /\ pc = "done" /\ tok # NoRet

(* C12: apiRequest() and NordigenAPI.request() return a value only for a
   successful (2xx) answer to the resource request, the value being the
   decoded body; on every other path (a non-2xx status of any code, no
   response, a set-up error, a failed token resolution) they raise one error
   and return nothing, and the command exits with code 1. *)
C12_NothingSwallowed ==
    RequestEnded =>
        /\ ret.kind \in {"value", "error"}
        /\ ret.kind = "value" =>
              /\ ResourceAnswered
              /\ ResourceAnswer.net = "response"
              /\ ResponseOk(ResourceAnswer.status)
              /\ ret.val = ResourceAnswer.body
        /\ (tok.kind = "error" \/ ~ResourceAnswered
              \/ ResourceAnswer.net # "response"
              \/ ~ResponseOk(ResourceAnswer.status)) =>
              /\ ret.kind = "error"
              /\ ret.message # ""
              /\ proc.code = 1 /\ proc.out = <<>> /\ proc.err = <<ret.message>>

C12_Witness ==
    /\ RequestEnded /\ op = "institutions list"
    /\ ResourceAnswered /\ ResourceAnswer = SetupFailure
    /\ ret.kind = "error"

\* The errors the clients raise for an answer with a non-2xx status.
Refusals(outcomes) == {r \in outcomes : r.net = "response" /\ ~ResponseOk(r.status)}

HttpStatusErrors ==
    {handleApiError(axiosPost(r)) : r \in Refusals(ApiOutcomes)}
    \cup {TokenRequestFailed(axiosPost(r)) : r \in Refusals(TokenNewOutcomes)}
    \cup {request(r) : r \in Refusals(ResourceOutcomes \cup TokenNewOutcomes)}
    \cup {ReauthenticationRequired}

\* Call number i of the invocation got no response.
NoResponseTo(i) == i <= Len(resps) /\ resps[i].resp.net = "failed"

(* C13, as claimed: when a call of the operation gets no response, be it the
   primary request, the token acquisition or the refresh before it, the
   operation raises an error that carries no status and differs from every
   error raised for an HTTP status. *)
C13_Original_EveryCallNetworkUnavailable ==
    (pc = "done" /\ op \in RequestCommands \cup {"login"}
        /\ \E i \in 1..Len(calls) : NoResponseTo(i)) =>
        /\ ret.kind = "error"
        /\ "status" \notin DOMAIN ret
        /\ ret \notin HttpStatusErrors

(* C13, amended: when the primary request gets no response, the operation
   raises an error that carries no status and differs from every error
   raised for an HTTP status ('No response from Nordigen API. Check your
   internet connection.' in src/api.js, the transport's own error in
   lib/api).  When the token acquisition gets no response, the operation
   raises an error without status that differs from those raised for an HTTP
   status ('Token request failed: <transport message>' in src/api.js) and
   sends no primary request.  When the refresh gets no response the failure
   is not surfaced as such: src/api.js goes on to the acquisition, whose
   outcome decides, and lib/auth raises the same 'Failed to refresh token'
   error as for a refusal. *)
C13_PrimaryAndAcquisitionUnavailable ==
    (pc = "done" /\ op \in RequestCommands \cup {"login"}) =>
        /\ (ResourceAnswered /\ ResourceAnswer.net = "failed") =>
              /\ ret.kind = "error"
              /\ "status" \notin DOMAIN ret
              /\ ret \notin HttpStatusErrors
              /\ cli = "nordigencom" => ret = NoResponse
              /\ cli = "nordigen" => ret = request(NetworkFailure)
        /\ \A i \in 1..Len(calls) :
              (calls[i] = "token/new" /\ NoResponseTo(i)) =>
                  /\ i = Len(calls)
                  /\ ret.kind = "error"
                  /\ "status" \notin DOMAIN ret
                  /\ ret \notin HttpStatusErrors
                  /\ cli = "nordigencom" =>
                        ret = Raised("Error", "Token request failed: "
                                              \o axiosMessage(NetworkFailure))
        /\ (calls # <<>> /\ calls[1] = "token/refresh" /\ NoResponseTo(1)) =>
              /\ cli = "nordigen" =>
                    ret = ReauthenticationRequired /\ Len(calls) = 1
              /\ cli = "nordigencom" => Len(calls) >= 2 /\ calls[2] = "token/new"

C13_Witness ==
    /\ pc = "done" /\ op = "institutions list"
    /\ Len(calls) = 3 /\ NoResponseTo(1) /\ Accepted(resps[2])
    /\ ResourceAnswered /\ ResourceAnswer.net = "failed"
    /\ ret = NoResponse

\* How many of the invocation's calls are resource requests.
ResourceCalls == Cardinality({i \in 1..Len(calls) : IsResource(calls[i])})

\* The invocation has sent its resource request and awaits the answer.
AwaitingResource == pc \in {"apiRequest:93", "accounts get:42"}

\* No call follows another by itself, except the acquisition that follows a
\* failed refresh.
OnlyEscalationFollows ==
    \A i \in 2..Len(calls) :
        \/ IsResource(calls[i]) /\ i = Len(calls) /\ Accepted(resps[i - 1])
        \/ /\ calls[i] = "token/new" /\ calls[i - 1] = "token/refresh"
           /\ ~Accepted(resps[i - 1]) /\ i = 2 /\ cli = "nordigencom"

(* C14: within one operation the resource request is sent at most once, as
   the last call; whatever its answer (401 and 429 included), the step that
   processes the answer ends the operation: it sends nothing again, calls no
   token endpoint and leaves the store with its tokens and expiries as it
   was; and the only call that follows another by itself is the acquisition
   after a failed refresh. *)
C14_NoSilentRetries ==
    /\ [](op \in RequestCommands =>
            /\ ResourceCalls <= 1
            /\ OnlyEscalationFollows
            /\ pc = "done" => Len(resps) = Len(calls))
    /\ [][AwaitingResource =>
            /\ config' = config /\ configInstance' = configInstance
            /\ calls' = calls
            /\ pc' \in {pc, "done"}]_vars
    /\ [][(pc = "done" /\ op \in RequestCommands) =>
            /\ config' = config /\ configInstance' = configInstance
            /\ pc' \in {"done", "idle"}]_vars

C14_Witness ==
    /\ op = "institutions list" /\ ResourceAnswered
    /\ ResourceAnswer.net = "response" /\ ResourceAnswer.status = 429
    /\ calls[1] = "token/refresh" /\ Len(calls) = 2
    /\ config.accessToken = tok.val

\* The invocation's calls of the token endpoints, in order.
TokenCalls == SelectSeq(calls, LAMBDA c : ~IsResource(c))

(* C15: one apiRequest() invocation makes zero, one or two token calls
   before the primary request and never more, each sent only after the one
   before it was answered: none exactly when the stored token is valid, one
   when the refresh or the acquisition is accepted at once, two only as one
   refresh that failed followed by one acquisition.  The primary request is
   sent only after token resolution returned a token and not at all when it
   raised; and with every call answered the invocation ends. *)
C15_TokenCallsThenPrimary ==
    /\ []((op \in ApiCommands /\ isConfigured(pre)) =>
            /\ TokenCalls \in {<<>>, <<"token/refresh">>, <<"token/new">>,
                               <<"token/refresh", "token/new">>}
            /\ Len(calls) - Len(resps) \in {0, 1}
            /\ TokenCalls = <<>> <=> StoredTokenUsable(pre, t0)
            /\ (tok.kind = "value" /\ Len(TokenCalls) = 1) => Accepted(resps[1])
            /\ Len(TokenCalls) = 2 => ~Accepted(resps[1])
            /\ ResourceCalls = 1 =>
                  /\ tok.kind = "value"
                  /\ calls[Len(calls)] = ResourceCall(Bearer(tok.val))
                  /\ Len(calls) = Len(TokenCalls) + 1
                  /\ TokenCalls # <<>> => Accepted(resps[Len(TokenCalls)])
            /\ tok.kind = "error" => ResourceCalls = 0
            /\ ResourceCalls <= 1)
    /\ (op \in ApiCommands ~> pc = "done")

C15_Witness ==
    /\ op = "institutions list" /\ pc = "done" /\ tok.kind = "value"
    /\ calls = <<"token/refresh", "token/new", ResourceCall(Bearer(tok.val))>>
    /\ ~Accepted(resps[1]) /\ Accepted(resps[2]) /\ Len(resps) = 3

\* The refresh call of ensureAuth() was made and was not accepted.
RefreshFailedInEnsureAuth ==
    /\ op = "ensureAuth" /\ calls # <<>> /\ calls[1] = "token/refresh"
    /\ resps # <<>> /\ ~Accepted(resps[1])

(* C16: in lib/auth, when the refresh call fails, whatever the cause (a
   refusal, a server error, no response), ensureAuth() raises 'Failed to
   refresh token. Please login again using: nordigen auth login', makes no
   acquisition call even if credentials are stored, and leaves every stored
   auth field as it was. *)
C16_RefreshFailureRequiresLogin ==
    RefreshFailedInEnsureAuth =>
        /\ pc = "done"
        /\ tok = Raised("Error",
              "Failed to refresh token. Please login again using: nordigen auth login")
        /\ ret = tok
        /\ calls = <<"token/refresh">> /\ Len(resps) = 1
        /\ nWrites = 0 /\ configInstance = pre

C16_Witness ==
    /\ RefreshFailedInEnsureAuth /\ pc = "done"
    /\ resps[1].resp = NetworkFailure
    /\ CredentialsStored(pre)
    /\ tok.kind = "error"

\* When the invocation of getAccessToken() ended.
EndTime == IF resps = <<>> THEN t0 ELSE resps[Len(resps)].at

(* C17: in src/api.js getAccessToken() raises only if secretId/secretKey are
   missing (and token/new is then not called) or the token/new call fails; a
   missing, expired or rejected refresh token alone never makes it raise;
   and with credentials stored and every acquisition accepted it ends with
   the returned token stored and valid, whatever the token state it started
   from. *)
C17_UnauthenticatedOnlyWhenAcquisitionFails ==
    (op = "getAccessToken" /\ pc = "done") =>
        /\ tok.kind \in {"value", "error"}
        /\ tok.kind = "error" =>
              \/ /\ ~isConfigured(pre)
                 /\ tok = CredentialsNotConfigured
                 /\ \A i \in 1..Len(calls) : calls[i] # "token/new"
              \/ /\ isConfigured(pre)
                 /\ calls[Len(calls)] = "token/new"
                 /\ ~Accepted(resps[Len(resps)])
                 /\ \E p \in {"Authentication failed", axiosMessage(resps[Len(resps)].resp)} :
                       tok = Raised("Error", "Token request failed: " \o p)
        /\ (isConfigured(pre)
              /\ \A i \in 1..Len(calls) : calls[i] = "token/new" => Accepted(resps[i])) =>
              /\ tok.kind = "value"
              /\ config.accessToken = tok.val
              /\ StoredTokenUsable(config, EndTime)

C17_Witness ==
    /\ op = "getAccessToken" /\ pc = "done" /\ isConfigured(pre)
    /\ pre.accessToken # "" /\ ~StoredTokenUsable(pre, t0)
    /\ calls = <<"token/refresh", "token/new">>
    /\ ~Accepted(resps[1]) /\ Accepted(resps[2])
    /\ tok.kind = "value" /\ StoredTokenUsable(config, EndTime)

\* The token calls of the invocation that the server accepted.
AcceptedTokenCalls ==
    {i \in 1..Len(resps) : ~IsResource(calls[i]) /\ Accepted(resps[i])}

(* C18: whenever `nordigencom auth login` reports 'Successfully authenticated
   with Nordigen', a token was requested from a token endpoint during that
   command and was issued, and the access token now stored is the one just
   issued. *)
C18_LoginReportsOnlyAfterTokenRequest ==
    (op = "auth login" /\ pc = "done"
        /\ proc.out = <<"Successfully authenticated with Nordigen">>) =>
        /\ TokenCalls # <<>>
        /\ \E i \in AcceptedTokenCalls :
              config.accessToken = resps[i].resp.body.obj["access"]

\* The request line with the header `Authorization: Bearer <token>`.
WithBearer(token) == "GET resource Authorization: Bearer " \o token

(* C19: every resource request carries the header Authorization: Bearer <t>
   where t is the access token held in the store when the request is sent
   and from then on to the end of the command.  In the nordigen client t is
   the token ensureAuth() returned, ensureAuth() has ended before the request
   is sent, and no request is sent when ensureAuth() raised; in src/api.js t
   is the token getAccessToken() returned. *)
C19_BearerIsStoredToken ==
    /\ (op \in ApiCommands /\ ResourceCalls > 0) =>
          /\ tok.kind = "value" /\ tok.val # ""
          /\ config.accessToken = tok.val
          /\ calls[Len(calls)] = WithBearer(config.accessToken)
          /\ Len(resps) >= Len(calls) - 1
    /\ (op = "accounts get" /\ ResourceCalls > 0) =>
          /\ tok.kind = "value" /\ tok.val # ""
          /\ Has(configInstance, "auth", "access_token")
          /\ configInstance["auth"]["access_token"] = tok.val
          /\ calls[Len(calls)] = WithBearer(configInstance["auth"]["access_token"])
          /\ Len(resps) >= Len(calls) - 1
    /\ (op \in RequestCommands /\ tok.kind = "error") => ResourceCalls = 0

C19_Witness ==
    /\ op = "accounts get" /\ pc = "accounts get:42"
    /\ calls = <<"token/refresh", WithBearer("acc2")>>
    /\ pre["auth"]["access_token"] = "acc1"
    /\ configInstance["auth"]["access_token"] = "acc2"

(* C20: every command invocation that ends in an error (an error is printed,
   or the operation raised) ends the process with exit code 1, and every
   invocation that completes its operation ends it with exit code 0. *)
C20_ExitCodeTellsErrorFromSuccess ==
    (pc = "done" /\ proc # NoProc) =>
        /\ (proc.err # <<>> \/ ret.kind = "error") => proc.code = 1
        /\ (proc.err = <<>> /\ ret.kind = "value") => proc.code = 0


(***************************************************************************)
(* Exit codes of the nordigen commands                                     *)
(***************************************************************************)
\* The error classes the README's "Exit Codes" table gives a code of their own.
ErrorClassCodes == {400, 401, 403, 404, 429, 500}

\* The exit code the table gives for an error.
ClassCode(e) ==
    IF "status" \in DOMAIN e /\ e.status \in ErrorClassCodes THEN e.status ELSE 1

(* C21: an invocation of the nordigen CLI that ended in an error exits with
   the code of the error's class: 400, 401, 403, 404, 429 or 500 for an error
   of that status, 1 for any other error. *)
C21_ExitCodeIsErrorClass ==
    (cli = "nordigen" /\ op = "accounts get" /\ pc = "done" /\ ret.kind = "error")
        => proc.code = ClassCode(ret)


(***************************************************************************)
(* One invocation from any store.  The store is a JSON file the invocation *)
(* reads when it starts: `nordigen config set <key> <value>` writes any    *)
(* key, and a file left by an earlier version, a restored backup or an     *)
(* editor is read the same way.  The nordigencom store always holds every  *)
(* key of its schema.                                                      *)
(***************************************************************************)
\* Expiries around the start of the clock (1000 s): at the margin, one second
\* beyond it, and far ahead.
AccessExpiries == {1060, 1061, 5000}
RefreshExpiries == {1061, 9000}
TokenExpiries == {0, 1060500, 5000000}

\* The object with the given <<key, value>> pairs.
ObjectOf(pairs) ==
    [k \in {p[1] : p \in pairs} |-> (CHOOSE p \in pairs : p[1] = k)[2]]

AuthSections ==
    {ObjectOf(cr \cup at \cup ae \cup rt \cup re) :
        cr \in {{}, {<<"secret_id", "ID1">>, <<"secret_key", "KEY1">>}},
        at \in {{}, {<<"access_token", "acc1">>}},
        ae \in {{}} \cup {{<<"access_expires", e>>} : e \in AccessExpiries},
        rt \in {{}, {<<"refresh_token", "ref1">>}},
        re \in {{}} \cup {{<<"refresh_expires", e>>} : e \in RefreshExpiries}}

NordigenStores ==
    {EmptyObj} \cup {[s \in {"auth"} |-> a] : a \in AuthSections}

NordigencomStores ==
    {[secretId |-> cr[1], secretKey |-> cr[2], accessToken |-> at,
      refreshToken |-> rt, tokenExpiry |-> e] :
        cr \in {<<"", "">>} \cup Credentials,
        at \in {"", "acc1"}, rt \in {"", "ref1"}, e \in TokenExpiries}

InitStore ==
    /\ cli \in {"nordigen", "nordigencom"}
    /\ clock = StartClock
    /\ ticks = 0
    /\ configInstance \in (IF cli = "nordigen" THEN NordigenStores ELSE {EmptyObj})
    /\ config \in (IF cli = "nordigencom" THEN NordigencomStores ELSE {ConfigDefaults})
    /\ peer = NoPeer
    /\ Idle

\* options.<name>, for the flags given on the command line
HasOption(a, o) == \E i \in DOMAIN a : a[i] = o

(***************************************************************************)
(* `nordigen config show`                                                  *)
(***************************************************************************)
Redacted == "***REDACTED***"
NotSet == "Not set"
ConfigPath == "~/.config/nordigen-cli/config.json"

\* if (safe.auth.<k>) safe.auth.<k> = '***REDACTED***'
RedactKey(c, k) ==
    IF FalsyStr(c, "auth", k) THEN c ELSE ConfSet(c, "auth", k, Redacted)

\* A variant that redacts the secret key only.
redactSecretKeyOnly(c) ==
    IF "auth" \in DOMAIN c THEN RedactKey(c, "secret_key") ELSE c

\* The copy of the store that `config show --json` prints without
\* --show-secrets
redact(c) ==
    IF "auth" \in DOMAIN c
    THEN RedactKey(RedactKey(RedactKey(c, "secret_key"), "access_token"),
                   "refresh_token")
    ELSE c

\* value || 'Not set'
OrNotSet(c, sec, k) == IF FalsyStr(c, sec, k) THEN NotSet ELSE c[sec][k]

\* `${value}`, for a key that may be absent
Shown(c, sec, k) == IF Has(c, sec, k) THEN c[sec][k] ELSE "undefined"

\* The rows of the text mode
configShowText(c, showSecrets) ==
    <<<<"Configuration">>, <<"Config File", ConfigPath>>, <<"Authentication:">>>>
    \o (IF "auth" \in DOMAIN c
        THEN <<<<"Secret ID", OrNotSet(c, "auth", "secret_id")>>,
               <<"Secret Key",
                 IF showSecrets THEN Shown(c, "auth", "secret_key") ELSE Redacted>>,
               <<"Access Token",
                 IF FalsyStr(c, "auth", "access_token") THEN NotSet
                 ELSE IF showSecrets THEN c["auth"]["access_token"] ELSE Redacted>>,
               <<"Refresh Token",
                 IF FalsyStr(c, "auth", "refresh_token") THEN NotSet
                 ELSE IF showSecrets THEN c["auth"]["refresh_token"] ELSE Redacted>>>>
        ELSE <<<<"Not configured">>>>)
    \o <<<<"Defaults:">>>>
    \o (IF "defaults" \in DOMAIN c
        THEN <<<<"Country", OrNotSet(c, "defaults", "country")>>,
               <<"Institution ID", OrNotSet(c, "defaults", "institution_id")>>>>
        ELSE <<<<"Not configured">>>>)

\* What the command prints: the store as JSON, or the rows
configShow(c, json, showSecrets) ==
    IF json THEN <<IF showSecrets THEN c ELSE redact(c)>>
    ELSE configShowText(c, showSecrets)

ConfigShowOptions ==
    {<<>>, <<"--json">>, <<"--show-secrets">>, <<"--json", "--show-secrets">>}

\* `nordigen config show [--json] [--show-secrets]`
ConfigShow ==
    /\ cli = "nordigen" /\ pc = "idle"
    /\ \E o \in ConfigShowOptions :
         /\ args' = o
         /\ proc' = Exited(0, configShow(configInstance, HasOption(o, "--json"),
                                        HasOption(o, "--show-secrets")), <<>>)
    /\ op' = "config show" /\ pre' = configInstance /\ t0' = clock /\ resps' = <<>>
    /\ calls' = <<>> /\ nWrites' = 0 /\ ret' = Value("") /\ pc' = "done"
    /\ UNCHANGED <<cli, peer, clock, ticks, configInstance, config, tok>>

(***************************************************************************)
(* The destructive commands of the nordigen client                         *)
(***************************************************************************)
\* `nordigen config clear` without --yes
ConfigClearUnconfirmed ==
    /\ cli = "nordigen" /\ pc = "idle"
    /\ op' = "clear" /\ args' = <<>>
    /\ pre' = configInstance /\ t0' = clock /\ resps' = <<>>
    /\ calls' = <<>> /\ nWrites' = 0 /\ ret' = Value("") /\ pc' = "done"
    /\ proc' = Exited(0, <<"Warning: This will clear all configuration including credentials",
                           "Use --yes to confirm">>, <<>>)
    /\ UNCHANGED <<cli, peer, clock, ticks, configInstance, config, tok>>

DeleteWarning(o) ==
    IF o = "agreements delete" THEN "Warning: This will permanently delete the agreement"
    ELSE IF o = "requisitions delete"
    THEN "Warning: This will permanently delete the requisition"
    ELSE "Warning: This will permanently delete the payment"

\* A variant that does not wait for --yes.
DeleteCommandUnconfirmed(o) ==
    /\ cli = "nordigen" /\ pc = "idle"
    /\ op' = o /\ pre' = configInstance /\ t0' = clock /\ resps' = <<>>
    /\ nWrites' = 0
    /\ \E a \in {<<>>, <<"--yes">>} : args' = a
    /\ ensureAuthStart(o)
    /\ UNCHANGED <<cli, peer, clock, ticks, configInstance, config, proc>>

\* `nordigen <o> <id> [--yes]`, up to its exit or the first await of
\* ensureAuth()
DeleteCommand(o) ==
    /\ cli = "nordigen" /\ pc = "idle"
    /\ op' = o /\ pre' = configInstance /\ t0' = clock /\ resps' = <<>>
    /\ nWrites' = 0
    /\ \E a \in {<<>>, <<"--yes">>} :
         /\ args' = a
         /\ IF ~HasOption(a, "--yes")
            THEN /\ proc' = Exited(0, <<DeleteWarning(o), "Use --yes to confirm deletion">>,
                                   <<>>)
                 /\ calls' = <<>> /\ tok' = NoRet /\ ret' = Value("") /\ pc' = "done"
            ELSE /\ ensureAuthStart(o)
                 /\ UNCHANGED proc
    /\ UNCHANGED <<cli, peer, clock, ticks, configInstance, config>>

AgreementsDelete == DeleteCommand("agreements delete")
RequisitionsDelete == DeleteCommand("requisitions delete")
PaymentsDelete == DeleteCommand("payments delete")

\* The request line and the Authorization header of a DELETE request.
DeleteCall(header) ==
    IF header = "" THEN "DELETE resource" ELSE "DELETE resource Authorization: " \o header

\* The command, from the return of ensureAuth() to the await of fetch()
DeleteSend ==
    /\ cli = "nordigen" /\ pc = "delete:194"
    /\ IF tok.kind = "value"
       THEN /\ calls' = Append(calls,
                   DeleteCall(AuthorizationHeader(getStoredToken(configInstance))))
            /\ pc' = "delete:196"
            /\ UNCHANGED <<ret, proc>>
       ELSE /\ ret' = tok
            /\ proc' = Outcome(tok, SuccessMessage(op))
            /\ pc' = "done"
            /\ UNCHANGED calls
    /\ UNCHANGED <<cli, peer, clock, ticks, configInstance, config, op, args, pre, t0,
                   resps, nWrites, tok>>

\* The command, from the answer of fetch() on
DeleteReturn ==
    /\ cli = "nordigen" /\ pc = "delete:196"
    /\ \E resp \in ResourceOutcomes :
         /\ resps' = Append(resps, Answer(resp, clock))
         /\ ret' = request(resp)
         /\ proc' = Outcome(ret', SuccessMessage(op))
    /\ pc' = "done"
    /\ UNCHANGED <<cli, peer, clock, ticks, configInstance, config, op, args, pre, t0,
                   calls, nWrites, tok>>

(***************************************************************************)
(* `auth status`                                                           *)
(***************************************************************************)
\* accessExpires ? Math.max(0, accessExpires - now) : 0
ExpiresIn(c, k, ms) ==
    IF FalsyNum(c, "auth", k) THEN 0
    ELSE IF c["auth"][k] - NowSec(ms) > 0 THEN c["auth"][k] - NowSec(ms) ELSE 0

\* lib/auth getAuthStatus()
getAuthStatus(c, ms) ==
    [authenticated |-> isAuthenticated(c, ms),
     hasAccessToken |-> ~FalsyStr(c, "auth", "access_token"),
     hasRefreshToken |-> ~FalsyStr(c, "auth", "refresh_token"),
     accessTokenValid |-> isAccessTokenValid(c, ms),
     refreshTokenValid |-> isRefreshTokenValid(c, ms),
     accessExpiresIn |-> ExpiresIn(c, "access_expires", ms),
     refreshExpiresIn |-> ExpiresIn(c, "refresh_expires", ms)]

Plural(n, unit) == ToString(n) \o " " \o unit \o (IF n # 1 THEN "s" ELSE "")

\* lib/output formatDuration()
formatDuration(seconds) ==
    IF seconds < 60 THEN Plural(seconds, "second")
    ELSE IF seconds < 3600 THEN Plural(seconds \div 60, "minute")
    ELSE IF seconds < 86400 THEN Plural(seconds \div 3600, "hour")
    ELSE Plural(seconds \div 86400, "day")

\* The rows `nordigen auth status` prints for a status
AuthStatusRows(status) ==
    IF status.authenticated
    THEN <<<<"Status", "Authenticated">>,
           <<"Access Token", IF status.accessTokenValid THEN "Valid" ELSE "Expired">>,
           <<"Refresh Token", IF status.refreshTokenValid THEN "Valid" ELSE "Expired">>>>
         \o (IF status.accessTokenValid
             THEN <<<<"Access Expires In", formatDuration(status.accessExpiresIn)>>>>
             ELSE <<>>)
         \o (IF status.refreshTokenValid
             THEN <<<<"Refresh Expires In", formatDuration(status.refreshExpiresIn)>>>>
             ELSE <<>>)
    ELSE <<<<"Status", "Not Authenticated">>,
           <<"Login with:", "nordigen auth login --secret-id <id> --secret-key <key>">>>>

\* `nordigen auth status`
AuthStatus ==
    /\ cli = "nordigen" /\ pc = "idle"
    /\ op' = "auth status" /\ args' = <<>> /\ pre' = configInstance /\ t0' = clock
    /\ resps' = <<>> /\ calls' = <<>> /\ nWrites' = 0
    /\ ret' = Value(getAuthStatus(configInstance, clock))
    /\ proc' = Exited(0, AuthStatusRows(ret'.val), <<>>)
    /\ pc' = "done"
    /\ UNCHANGED <<cli, peer, clock, ticks, configInstance, config, tok>>

\* A variant that applies the 60 s margin of hasValidToken().
authStatusValidWithMargin(c, ms) == c.tokenExpiry > ms + SKEW_MS

\* const isValid = tokenExpiry > Date.now()
authStatusValid(c, ms) == c.tokenExpiry > ms

\* `nordigencom auth status`
AuthStatusCom ==
    /\ cli = "nordigencom" /\ pc = "idle"
    /\ op' = "auth status" /\ args' = <<>> /\ pre' = config /\ t0' = clock
    /\ resps' = <<>> /\ calls' = <<>> /\ nWrites' = 0 /\ ret' = Value("")
    /\ proc' = IF config.accessToken = ""
               THEN Exited(1, <<>>, <<"Not authenticated. Run: nordigencom auth login">>)
               ELSE IF authStatusValid(config, clock)
               THEN Exited(0, <<"Authenticated with Nordigen", "Token expires:">>, <<>>)
               ELSE Exited(1, <<>>, <<"Token expired. Run: nordigencom auth login">>)
    /\ pc' = "done"
    /\ UNCHANGED <<cli, peer, clock, ticks, configInstance, config, tok>>

NextStore ==
    \/ Tick
    \/ ConfigShow
    \/ ConfigClear
    \/ ConfigClearUnconfirmed
    \/ AgreementsDelete
    \/ RequisitionsDelete
    \/ PaymentsDelete
    \/ DeleteSend
    \/ DeleteReturn
    \/ AccountsGet
    \/ EnsureAuthReturn
    \/ AccountsGetSend
    \/ AccountsGetReturn
    \/ AuthStatus
    \/ AuthStatusCom
    \/ GetAccessTokenCall
    \/ InstitutionsList
    \/ RefreshReturn
    \/ ObtainReturn
    \/ ApiRequestSend
    \/ ApiRequestReturn

SpecStore == InitStore /\ [][NextStore]_vars


(***************************************************************************)
(* `config show` and the stored secrets                                    *)
(***************************************************************************)
SecretKeys == {"secret_key", "access_token", "refresh_token"}
OtherSecrets == {"KEY2", "acc2", "ref2"}

\* The store with every non-empty secret replaced by the one f gives.
WithSecrets(c, f) ==
    [s \in DOMAIN c |->
        IF s = "auth"
        THEN [k \in DOMAIN c[s] |->
                 IF k \in SecretKeys /\ c[s][k] # "" THEN f[k] ELSE c[s][k]]
        ELSE c[s]]

\* The non-empty secrets of a store.
StoredSecrets(c) ==
    {c["auth"][k] : k \in {x \in SecretKeys : ~FalsyStr(c, "auth", x)}}

\* The strings a `config show` output displays.
Displayed(out, json) ==
    IF json
    THEN IF "auth" \in DOMAIN out[1]
         THEN {out[1]["auth"][k] :
                  k \in (SecretKeys \cup {"secret_id"}) \cap DOMAIN out[1]["auth"]}
         ELSE {}
    ELSE UNION {{out[i][j] : j \in DOMAIN out[i]} : i \in DOMAIN out}

(* C22: `nordigen config show` without --show-secrets prints the same output
   for any two stores that differ only in their non-empty secret_key,
   access_token and refresh_token values, in JSON mode and in text mode, and
   none of these values is in the output; a stored secret is in the output
   only when --show-secrets was given. *)
C22_ConfigShowHidesSecrets ==
    (op = "config show" /\ pc = "done") =>
        /\ ~HasOption(args, "--show-secrets") =>
              \A f \in [SecretKeys -> OtherSecrets] :
                  configShow(WithSecrets(pre, f), HasOption(args, "--json"), FALSE)
                      = proc.out
        /\ (StoredSecrets(pre) \cap
                Displayed(proc.out, HasOption(args, "--json")) # {})
              => HasOption(args, "--show-secrets")

C22_Witness ==
    /\ op = "config show" /\ pc = "done" /\ args = <<"--json">>
    /\ StoredSecrets(pre) = {"KEY1", "acc1", "ref1"}
    /\ Redacted \in Displayed(proc.out, TRUE)


(***************************************************************************)
(* Refreshing without stored credentials                                   *)
(***************************************************************************)
\* The store holds no usable access token, a usable refresh token and no
\* credentials.
RefreshTokenOnly(c, ms) ==
    IF cli = "nordigen"
    THEN /\ ~isAccessTokenValid(c, ms) /\ isRefreshTokenValid(c, ms)
         /\ FalsyStr(c, "auth", "secret_id") /\ FalsyStr(c, "auth", "secret_key")
    ELSE ~hasValidToken(c, ms) /\ c.refreshToken # "" /\ ~isConfigured(c)

\* The invocation is a resource command that was not stopped for want of
\* --yes.
ResourceCommand ==
    \/ op \in {"accounts get", "institutions list"}
    \/ op \in DeleteCommands /\ HasOption(args, "--yes")

\* The access token the refresh call issued.
Refreshed == resps[1].resp.body.obj["access"]

\* One accepted refresh call and then the resource request with the new token.
RefreshedThenSent ==
    /\ Len(calls) = 2 /\ calls[1] = "token/refresh" /\ Accepted(resps[1])
    /\ IsResource(calls[2])
    /\ \E m \in {"GET", "DELETE"} :
          calls[2] = m \o " resource Authorization: Bearer " \o Refreshed

(* C23, as claimed: a resource command started with an expired access token,
   a usable refresh token and no credentials in the store makes one refresh
   call and, when that call is accepted, sends its request with the new
   token; in the nordigen client and in the nordigencom client. *)
C23_Original_RefreshNeedsNoCredentials ==
    (ResourceCommand /\ RefreshTokenOnly(pre, t0) /\ pc = "done") =>
        /\ calls # <<>> /\ calls[1] = "token/refresh"
        /\ Accepted(resps[1]) => RefreshedThenSent

(* C23, corrected: in the nordigen client a resource command started with an
   expired access token, a usable refresh token and no credentials makes one
   refresh call and, when it is accepted, stores the new access token and
   sends its request with it.  In src/api.js getAccessToken() does the same,
   but every resource command of the nordigencom client first calls
   requireAuth(), which exits with code 1 and without any call when secretId
   or secretKey is not stored, whatever tokens the store holds. *)
C23_RefreshNeedsNoCredentialsExceptRequireAuth ==
    /\ (cli = "nordigen" /\ ResourceCommand /\ RefreshTokenOnly(pre, t0)) =>
          /\ calls # <<>> /\ calls[1] = "token/refresh"
          /\ (resps # <<>> /\ Accepted(resps[1])) =>
                /\ tok = Value(Refreshed)
                /\ configInstance["auth"]["access_token"] = Refreshed
                /\ Len(TokenCalls) = 1
                /\ pc = "done" => RefreshedThenSent
    /\ (op = "getAccessToken" /\ RefreshTokenOnly(pre, t0)) =>
          /\ calls # <<>> /\ calls[1] = "token/refresh"
          /\ (resps # <<>> /\ Accepted(resps[1])) =>
                /\ pc = "done" /\ calls = <<"token/refresh">>
                /\ tok = Value(Refreshed) /\ config.accessToken = Refreshed
    /\ (cli = "nordigencom" /\ op = "institutions list" /\ ~isConfigured(pre)) =>
          /\ pc = "done" /\ calls = <<>> /\ config = pre
          /\ proc.code = 1 /\ proc.err = <<NotConfiguredMessage(op)>>

C23_Witness ==
    /\ cli = "nordigen" /\ op = "agreements delete" /\ RefreshTokenOnly(pre, t0)
    /\ pc = "done" /\ RefreshedThenSent /\ proc.code = 0

\* requireAuth() stopping a command although a usable refresh token is stored
C23_WitnessRequireAuth ==
    /\ cli = "nordigencom" /\ op = "institutions list" /\ RefreshTokenOnly(pre, t0)
    /\ pc = "done" /\ proc.code = 1


(***************************************************************************)
(* The token updates write by write.  Every config.set() rewrites the      *)
(* store file on its own, so a process that is killed (or whose write      *)
(* fails) between two of them leaves the writes made so far.               *)
(***************************************************************************)
\* login(): its config.set() calls, in order
loginWrites(secretId, secretKey, result, ms) ==
    <<<<"secret_id", secretId>>,
      <<"secret_key", secretKey>>,
      <<"access_token", result.obj["access"]>>,
      <<"refresh_token", result.obj["refresh"]>>,
      <<"access_expires", NowSec(ms) + result.obj["access_expires"]>>,
      <<"refresh_expires", NowSec(ms) + result.obj["refresh_expires"]>>>>

\* ensureAuth(): the config.set() calls of its refresh branch
ensureAuthWrites(result, ms) ==
    <<<<"access_token", result.obj["access"]>>,
      <<"access_expires", NowSec(ms) + result.obj["access_expires"]>>>>

\* obtainAccessToken(): its setConfig() calls
obtainAccessTokenWrites(data, ms) ==
    <<<<"accessToken", data.obj["access"]>>>>
    \o (IF Truthy(data, "refresh") THEN <<<<"refreshToken", data.obj["refresh"]>>>>
        ELSE <<>>)
    \o <<<<"tokenExpiry", ms + data.obj["access_expires"] * 1000>>>>

\* refreshAccessToken(): its setConfig() calls
refreshAccessTokenWrites(data, ms) ==
    <<<<"accessToken", data.obj["access"]>>,
      <<"tokenExpiry", ms + data.obj["access_expires"] * 1000>>>>

\* The clock when the last answer was processed.
AnsweredAt == resps[Len(resps)].at

\* login(), from the answer of api.obtainToken() to `const now`
LoginAnswer ==
    /\ cli = "nordigen" /\ pc = "login:57"
    /\ \E resp \in TokenNewOutcomes :
         LET r == request(resp)
         IN  /\ resps' = Append(resps, Answer(resp, clock))
             /\ ret' = r
             /\ IF r.kind = "value"
                THEN /\ pc' = "login:63"
                     /\ UNCHANGED proc
                ELSE /\ pc' = "done"
                     /\ proc' = Outcome(r, "Credentials saved securely")
    /\ UNCHANGED <<cli, peer, clock, ticks, configInstance, config, op, args, pre, t0,
                   calls, nWrites, tok>>

\* login(): one config.set(), and after the last the command's report
LoginSet ==
    /\ cli = "nordigen" /\ pc = "login:63"
    /\ LET ws == loginWrites(args[1], args[2], ret.val, AnsweredAt)
           w == ws[nWrites + 1]
       IN  /\ configInstance' = ConfSet(configInstance, "auth", w[1], w[2])
           /\ nWrites' = nWrites + 1
           /\ IF nWrites' = Len(ws)
              THEN /\ pc' = "done"
                   /\ proc' = Outcome(ret, "Credentials saved securely")
              ELSE UNCHANGED <<pc, proc>>
    /\ UNCHANGED <<cli, peer, clock, ticks, config, op, args, pre, t0, calls, resps,
                   tok, ret>>

\* ensureAuth(), from the answer of api.refreshToken() to `const now`
EnsureAuthAnswer ==
    /\ cli = "nordigen" /\ pc = "ensureAuth:31"
    /\ \E resp \in TokenRefreshOutcomes :
         LET r == request(resp)
         IN  /\ resps' = Append(resps, Answer(resp, clock))
             /\ IF r.kind = "value"
                THEN /\ ret' = r
                     /\ pc' = "ensureAuth:35"
                     /\ UNCHANGED tok
                ELSE /\ tok' = ReauthenticationRequired
                     /\ ret' = ReturnedToken(op, tok')
                     /\ pc' = AwaitingToken(op)
    /\ UNCHANGED <<cli, peer, clock, ticks, configInstance, config, op, args, pre, t0,
                   calls, nWrites, proc>>

\* ensureAuth(): one config.set(), and after the second the return
EnsureAuthSet ==
    /\ cli = "nordigen" /\ pc = "ensureAuth:35"
    /\ LET ws == ensureAuthWrites(ret.val, AnsweredAt)
           w == ws[nWrites + 1]
       IN  /\ configInstance' = ConfSet(configInstance, "auth", w[1], w[2])
           /\ nWrites' = nWrites + 1
           /\ IF nWrites' = Len(ws)
              THEN /\ tok' = Value(ret.val.obj["access"])
                   /\ ret' = ReturnedToken(op, tok')
                   /\ pc' = AwaitingToken(op)
              ELSE UNCHANGED <<pc, tok, ret>>
    /\ UNCHANGED <<cli, peer, clock, ticks, config, op, args, pre, t0, calls, resps,
                   proc>>

\* obtainAccessToken(), from the answer of axios.post(token/new) to the first
\* setConfig()
ObtainAnswer ==
    /\ cli = "nordigencom" /\ pc = "obtainAccessToken:18"
    /\ \E resp \in TokenNewOutcomes :
         LET r == axiosPost(resp)
         IN  /\ resps' = Append(resps, Answer(resp, clock))
             /\ IF r.kind = "value"
                THEN /\ ret' = r
                     /\ pc' = "obtainAccessToken:24"
                     /\ UNCHANGED tok
                ELSE /\ tok' = TokenRequestFailed(r)
                     /\ ret' = ReturnedToken(op, tok')
                     /\ pc' = AwaitingToken(op)
    /\ UNCHANGED <<cli, peer, clock, ticks, configInstance, config, op, args, pre, t0,
                   calls, nWrites, proc>>

\* obtainAccessToken(): one setConfig(), and after the last the return
ObtainSet ==
    /\ cli = "nordigencom" /\ pc = "obtainAccessToken:24"
    /\ LET ws == obtainAccessTokenWrites(ret.val, clock)
           w == ws[nWrites + 1]
       IN  /\ config' = [config EXCEPT ![w[1]] = w[2]]
           /\ nWrites' = nWrites + 1
           /\ IF nWrites' = Len(ws)
              THEN /\ tok' = Value(ret.val.obj["access"])
                   /\ ret' = ReturnedToken(op, tok')
                   /\ pc' = AwaitingToken(op)
              ELSE UNCHANGED <<pc, tok, ret>>
    /\ UNCHANGED <<cli, peer, clock, ticks, configInstance, op, args, pre, t0, calls,
                   resps, proc>>

\* refreshAccessToken(), from the answer of axios.post(token/refresh) to the
\* first setConfig() or to the call of obtainAccessToken()
RefreshAnswer ==
    /\ cli = "nordigencom" /\ pc = "refreshAccessToken:47"
    /\ \E resp \in TokenRefreshOutcomes :
         LET r == axiosPost(resp)
         IN  /\ resps' = Append(resps, Answer(resp, clock))
             /\ IF r.kind = "value"
                THEN /\ ret' = r
                     /\ pc' = "refreshAccessToken:52"
                     /\ UNCHANGED <<tok, calls>>
                ELSE ObtainCall(op)
    /\ UNCHANGED <<cli, peer, clock, ticks, configInstance, config, op, args, pre, t0,
                   nWrites, proc>>

\* refreshAccessToken(): one setConfig(), and after the second the return
RefreshSet ==
    /\ cli = "nordigencom" /\ pc = "refreshAccessToken:52"
    /\ LET ws == refreshAccessTokenWrites(ret.val, clock)
           w == ws[nWrites + 1]
       IN  /\ config' = [config EXCEPT ![w[1]] = w[2]]
           /\ nWrites' = nWrites + 1
           /\ IF nWrites' = Len(ws)
              THEN /\ tok' = Value(ret.val.obj["access"])
                   /\ ret' = ReturnedToken(op, tok')
                   /\ pc' = AwaitingToken(op)
              ELSE UNCHANGED <<pc, tok, ret>>
    /\ UNCHANGED <<cli, peer, clock, ticks, configInstance, op, args, pre, t0, calls,
                   resps, proc>>

\* The process is killed while the operation runs.
Kill ==
    /\ pc \notin {"idle", "done", "killed"}
    /\ pc' = "killed"
    /\ UNCHANGED <<cli, peer, clock, ticks, configInstance, config, op, args, pre, t0,
                   calls, resps, nWrites, tok, ret, proc>>

NextKill ==
    \/ Tick
    \/ Exit
    \/ Kill
    \/ LoginCall
    \/ LoginAnswer
    \/ LoginSet
    \/ EnsureAuthCall
    \/ EnsureAuthAnswer
    \/ EnsureAuthSet
    \/ ConfigSetCredentials
    \/ GetAccessTokenCall
    \/ ObtainAnswer
    \/ ObtainSet
    \/ RefreshAnswer
    \/ RefreshSet

SpecKill == Init /\ [][NextKill]_vars


\* The answer that issued the tokens being written, if the invocation got one.
Issued == resps[Len(resps)]
TokensIssued == resps # <<>> /\ Accepted(Issued)

\* The store after the complete update the invocation was making.
CompleteUpdate ==
    IF op = "login"
    THEN loginSave(pre, args[1], args[2], Issued.resp.body, Issued.at)
    ELSE ensureAuthSave(pre, Issued.resp.body, Issued.at)

\* The nordigencom store holds the complete update: the issued tokens and an
\* expiry computed from the issued lifetime.
CompleteUpdateCom ==
    LET data == Issued.resp.body
    IN  /\ config.accessToken = data.obj["access"]
        /\ Truthy(data, "refresh") /\ calls[Len(calls)] = "token/new"
              => config.refreshToken = data.obj["refresh"]
        /\ config.tokenExpiry >= Issued.at + data.obj["access_expires"] * 1000
        /\ config.secretId = pre.secretId /\ config.secretKey = pre.secretKey

(* C24: when the process is killed during login(), during the refresh branch
   of ensureAuth() or during obtainAccessToken() / refreshAccessToken(), the
   store holds either the complete auth state from before the invocation or
   the complete new one, never a part of the update. *)
C24_TokenUpdateIsAtomic ==
    pc = "killed" =>
        IF cli = "nordigen"
        THEN configInstance = pre \/ (TokensIssued /\ configInstance = CompleteUpdate)
        ELSE config = pre \/ (TokensIssued /\ CompleteUpdateCom)


(***************************************************************************)
(* Where the stored expiries come from                                     *)
(***************************************************************************)
\* The stored expiry, 0 - 1 when the key is absent.
StoredExpiry(c, k) == IF Has(c, "auth", k) THEN c["auth"][k] ELSE 0 - 1

\* The lifetimes the last answer gave.
AccessTTL == Issued.resp.body.obj["access_expires"]
RefreshTTL == Issued.resp.body.obj["refresh_expires"]

\* The step stores an expiry.
ExpiryWritten(k) ==
    /\ Has(configInstance', "auth", k)
    /\ StoredExpiry(configInstance', k) # StoredExpiry(configInstance, k)

\* The step is the processing of an accepted token call at this moment.
ProcessesIssue ==
    /\ Len(resps') = Len(resps) + 1
    /\ Accepted(resps'[Len(resps')]) /\ resps'[Len(resps')].at = clock
    /\ ~IsResource(calls[Len(resps')])

(* C25: a stored expiry is written only by the step that processes a
   successful acquisition or refresh (or by the user's own `config set`), as
   the time of that step plus the lifetime the server gave, in the unit the
   validity check compares in: epoch seconds in lib/auth and lib/config,
   epoch milliseconds in src/api.js; a refresh leaves the refresh expiry
   alone.  Hence a token obtained at time t with lifetime T is reported valid
   exactly while now + 60 s < t + T. *)
C25_ExpiryIsIssueTimePlusLifetime ==
    /\ [][/\ (ExpiryWritten("access_expires") /\ op' # "set") =>
                /\ ProcessesIssue /\ op' \in {"login", "ensureAuth"}
                /\ configInstance'["auth"]["access_expires"] =
                       NowSec(clock) + resps'[Len(resps')].resp.body.obj["access_expires"]
          /\ (ExpiryWritten("refresh_expires") /\ op' # "set") =>
                /\ ProcessesIssue /\ op' = "login"
                /\ configInstance'["auth"]["refresh_expires"] =
                       NowSec(clock) + resps'[Len(resps')].resp.body.obj["refresh_expires"]
          /\ config'.tokenExpiry # config.tokenExpiry =>
                /\ ProcessesIssue /\ op' = "getAccessToken"
                /\ config'.tokenExpiry =
                       clock + resps'[Len(resps')].resp.body.obj["access_expires"] * 1000
         ]_vars
    /\ []((pc = "done" /\ TokensIssued /\ ~IsResource(calls[Len(calls)])) =>
            /\ op \in {"login", "ensureAuth"} =>
                  (isAccessTokenValid(configInstance, clock)
                      <=> NowSec(clock) + 60 < NowSec(Issued.at) + AccessTTL)
            /\ op = "login" =>
                  (isRefreshTokenValid(configInstance, clock)
                      <=> NowSec(clock) + 60 < NowSec(Issued.at) + RefreshTTL)
            /\ op = "getAccessToken" =>
                  (hasValidToken(config, clock)
                      <=> clock + 60000 < Issued.at + AccessTTL * 1000))

\* A token issued with a lifetime of 61 s that is no longer valid one tick
\* later
C25_Witness ==
    /\ op = "ensureAuth" /\ pc = "done" /\ TokensIssued
    /\ calls = <<"token/refresh">> /\ AccessTTL = 61
    /\ configInstance["auth"]["access_expires"] = NowSec(Issued.at) + 61
    /\ clock > Issued.at /\ ~isAccessTokenValid(configInstance, clock)


(***************************************************************************)
(* obtainAccessToken() in src/api.js                                       *)
(***************************************************************************)
\* The invocation called token/new and that call has been answered.
AcquisitionAnswered ==
    /\ calls # <<>> /\ calls[Len(calls)] = "token/new" /\ Len(resps) = Len(calls)

\* The server's summary when the answer carries one, else the transport's
\* message.
SummaryOrTransport(resp) ==
    IF /\ resp.net = "response" /\ resp.ctype = "json" /\ resp.body.kind = "object"
       /\ "summary" \in DOMAIN resp.body.obj /\ resp.body.obj["summary"] # ""
    THEN resp.body.obj["summary"]
    ELSE IF resp.net = "failed" THEN "connect ECONNREFUSED"
    ELSE "Request failed with status code " \o ToString(resp.status)

SameTokens(c, d) ==
    /\ c.accessToken = d.accessToken /\ c.refreshToken = d.refreshToken
    /\ c.tokenExpiry = d.tokenExpiry

(* C26: obtainAccessToken() raises 'Credentials not configured ...' without
   calling token/new when secretId or secretKey is not stored, and only then;
   when its token/new call fails for any reason it raises 'Token request
   failed: <summary or transport message>' and accessToken, refreshToken and
   tokenExpiry are as they were before. *)
C26_ObtainFailsWithoutTouchingTokens ==
    op = "getAccessToken" =>
        /\ ~isConfigured(pre) =>
              /\ \A i \in DOMAIN calls : calls[i] # "token/new"
              /\ (pc = "done" /\ tok.kind # "value") =>
                    /\ tok = CredentialsNotConfigured
                    /\ SameTokens(config, pre)
        /\ tok = CredentialsNotConfigured => ~isConfigured(pre)
        /\ (AcquisitionAnswered /\ ~Accepted(Issued)) =>
              /\ pc = "done"
              /\ tok = Raised("Error",
                     "Token request failed: " \o SummaryOrTransport(Issued.resp))
              /\ SameTokens(config, pre)

\* A refused acquisition after a failed refresh, with tokens in the store
C26_Witness ==
    /\ op = "getAccessToken" /\ pc = "done"
    /\ calls = <<"token/refresh", "token/new">> /\ Issued.resp = Refusal
    /\ tok.kind = "error" /\ tok.message = "Token request failed: Authentication failed"
    /\ pre.accessToken # "" /\ config = pre

\* The acquisition not attempted for want of the secret key
C26_WitnessNotConfigured ==
    /\ op = "getAccessToken" /\ pc = "done" /\ tok = CredentialsNotConfigured
    /\ pre.secretId # "" /\ pre.secretKey = "" /\ calls = <<>>


(***************************************************************************)
(* NordigenAPI.request(): the URL.  A query is a list of entries, each a   *)
(* key and a JavaScript value; the URL is its origin and path and the list *)
(* of its search parameters, each a name and a string.                     *)
(***************************************************************************)
BaseURL == "https://ob.nordigen.com"
Endpoints == {"/api/v2/institutions/"}
QueryKeys == {"country", "limit", "offset"}

\* A JavaScript value: its type and, by type, its string, number or boolean.
JsValue(t, s, n, b) == [t |-> t, s |-> s, n |-> n, b |-> b]
Undefined == JsValue("undefined", "", 0, FALSE)
Null == JsValue("null", "", 0, FALSE)
Str(s) == JsValue("string", s, 0, FALSE)
Num(n) == JsValue("number", "", n, FALSE)
Bool(b) == JsValue("boolean", "", 0, b)

QueryValues == {Undefined, Null, Str("GB"), Str(""), Num(0), Num(10), Bool(FALSE)}

\* The objects a caller can pass as `query`: no entry, one, or two with
\* different keys.
MaxQueryEntries == 2
Queries ==
    {q \in UNION {[1..n -> QueryKeys \X QueryValues] : n \in 0..MaxQueryEntries} :
        \A i, j \in DOMAIN q : q[i][1] = q[j][1] => i = j}

\* String(value), as URLSearchParams.append() applies it
String(value) ==
    CASE value.t = "string" -> value.s
      [] value.t = "number" -> ToString(value.n)
      [] value.t = "boolean" -> IF value.b THEN "true" ELSE "false"
      [] OTHER -> value.t

\* A variant that appends truthy values only.
appendedIfTruthy(value) ==
    CASE value.t = "string" -> value.s # ""
      [] value.t = "number" -> value.n # 0
      [] value.t = "boolean" -> value.b
      [] OTHER -> FALSE

\* value !== undefined && value !== null
appended(value) == value.t # "undefined" /\ value.t # "null"

\* Object.entries(query).forEach(...): the search parameters, in order
RECURSIVE searchParams(_)
searchParams(q) ==
    IF q = <<>> THEN <<>>
    ELSE (IF appended(q[1][2]) THEN <<<<q[1][1], String(q[1][2])>>>> ELSE <<>>)
         \o searchParams(Tail(q))

\* new URL(`${this.baseURL}${endpoint}`) with the query's parameters appended
buildURL(endpoint, q) ==
    [origin |-> BaseURL, pathname |-> endpoint, search |-> searchParams(q)]

\* NordigenAPI.request(method, endpoint, {query}), up to its await of fetch()
RequestWithQuery ==
    /\ cli = "nordigen" /\ pc = "idle"
    /\ \E e \in Endpoints, q \in Queries :
         /\ args' = <<e, q>>
         /\ calls' = <<buildURL(e, q)>>
    /\ op' = "request" /\ pre' = configInstance /\ t0' = clock /\ resps' = <<>>
    /\ pc' = "request:81"
    /\ UNCHANGED <<cli, peer, clock, ticks, configInstance, config, nWrites, tok, ret,
                   proc>>

NextQuery ==
    \/ RequestWithQuery
    \/ RequestReturn
    \/ Exit

SpecQuery == InitRequest /\ [][NextQuery]_vars

\* The value the query gives for a key, undefined when it has no such entry.
QueryValue(q, k) ==
    IF \E i \in DOMAIN q : q[i][1] = k
    THEN q[CHOOSE i \in DOMAIN q : q[i][1] = k][2]
    ELSE Undefined

\* The strings the URL carries for a name.
ParamValues(url, k) == {url.search[i][2] : i \in {j \in DOMAIN url.search : url.search[j][1] = k}}

\* How a value reads in a URL.
InURL(value) ==
    IF value = Str("GB") THEN "GB"
    ELSE IF value = Str("") THEN ""
    ELSE IF value = Num(0) THEN "0"
    ELSE IF value = Num(10) THEN "10"
    ELSE "false"

(* C27: the URL NordigenAPI.request() fetches carries key=value for exactly
   the entries of `query` whose value is neither undefined nor null (also for
   0, '' and false), once each, and no parameter for any other key; its
   origin and path are the base URL and the endpoint whatever the query. *)
C27_QueryKeepsDefinedValuesOnly ==
    (op = "request" /\ calls # <<>> /\ Len(args) = 2) =>
        LET url == calls[1]
            q == args[2]
        IN  /\ url.origin = BaseURL /\ url.pathname = args[1]
            /\ \A k \in QueryKeys :
                  IF QueryValue(q, k) \in {Undefined, Null}
                  THEN ParamValues(url, k) = {}
                  ELSE ParamValues(url, k) = {InURL(QueryValue(q, k))}
            /\ Len(url.search) =
                  Cardinality({k \in QueryKeys : QueryValue(q, k) \notin {Undefined, Null}})

\* country=GB kept, a null limit dropped
C27_Witness ==
    /\ op = "request" /\ pc = "done" /\ Len(args) = 2
    /\ args[2] = <<<<"country", Str("GB")>>, <<"limit", Null>>>>
    /\ calls[1].search = <<<<"country", "GB">>>>


(***************************************************************************)
(* Two invocations of the nordigen client at the same time.  They share    *)
(* the store file and nothing else; each config.set() is one write of the  *)
(* file, and the writes of the two processes interleave freely.  The       *)
(* second process runs a command that calls ensureAuth(); each process     *)
(* runs once.                                                              *)
(***************************************************************************)
\* A session whose access token has expired and whose refresh token has not.
RefreshDue ==
    [s \in {"auth"} |->
        [secret_id |-> "ID1", secret_key |-> "KEY1", access_token |-> "acc1",
         access_expires |-> 1000, refresh_token |-> "ref1",
         refresh_expires |-> 9000]]

InitRace ==
    /\ cli = "nordigen"
    /\ clock = StartClock
    /\ ticks = 0
    /\ configInstance = RefreshDue
    /\ config = ConfigDefaults
    /\ peer = NoPeer
    /\ Idle

PeerAt(p, result, ms, n) == [pc |-> p, result |-> result, at |-> ms, nWrites |-> n]

\* The second process: ensureAuth(), up to its return or its await of
\* api.refreshToken()
PeerEnsureAuthCall ==
    /\ cli = "nordigen" /\ peer = NoPeer
    /\ peer' = IF ensureAuthBranch(configInstance, clock) = "refresh"
               THEN PeerAt("ensureAuth:31", NullBody, 0, 0)
               ELSE PeerAt("done", NullBody, 0, 0)
    /\ UNCHANGED <<cli, clock, ticks, configInstance, config, pc, op, args, pre, t0,
                   calls, resps, nWrites, tok, ret, proc>>

\* The second process: from the answer of api.refreshToken() to `const now`
PeerEnsureAuthAnswer ==
    /\ peer.pc = "ensureAuth:31"
    /\ \E resp \in TokenRefreshOutcomes :
         LET r == request(resp)
         IN  peer' = IF r.kind = "value" THEN PeerAt("ensureAuth:35", r.val, clock, 0)
                     ELSE PeerAt("done", NullBody, 0, 0)
    /\ UNCHANGED <<cli, clock, ticks, configInstance, config, pc, op, args, pre, t0,
                   calls, resps, nWrites, tok, ret, proc>>

\* The second process: one config.set()
PeerEnsureAuthSet ==
    /\ peer.pc = "ensureAuth:35"
    /\ LET ws == ensureAuthWrites(peer.result, peer.at)
           w == ws[peer.nWrites + 1]
       IN  /\ configInstance' = ConfSet(configInstance, "auth", w[1], w[2])
           /\ peer' = PeerAt(IF peer.nWrites + 1 = Len(ws) THEN "done" ELSE peer.pc,
                             peer.result, peer.at, peer.nWrites + 1)
    /\ UNCHANGED <<cli, clock, ticks, config, pc, op, args, pre, t0, calls, resps,
                   nWrites, tok, ret, proc>>

NextRace ==
    \/ Tick
    \/ EnsureAuthCall
    \/ EnsureAuthAnswer
    \/ EnsureAuthSet
    \/ LoginCall
    \/ LoginAnswer
    \/ LoginSet
    \/ PeerEnsureAuthCall
    \/ PeerEnsureAuthAnswer
    \/ PeerEnsureAuthSet

SpecRace == InitRace /\ [][NextRace]_vars

\* The stored access token and access expiry are those one answer gave.
FromAnswer(data, ms) ==
    /\ Has(configInstance, "auth", "access_token")
    /\ Has(configInstance, "auth", "access_expires")
    /\ configInstance["auth"]["access_token"] = data.obj["access"]
    /\ configInstance["auth"]["access_expires"] =
           NowSec(ms) + data.obj["access_expires"]

\* Both invocations have finished a token update.
BothUpdated ==
    /\ pc = "done" /\ op \in {"login", "ensureAuth"} /\ TokensIssued
    /\ peer.pc = "done" /\ peer.nWrites = 2

(* C28: once two concurrent invocations that both update the token state
   have finished, the stored access token and access expiry come from the
   same server answer, the last writer's. *)
C28_TokenAndExpiryFromOneAnswer ==
    BothUpdated =>
        \/ FromAnswer(Issued.resp.body, Issued.at)
        \/ FromAnswer(peer.result, peer.at)


(***************************************************************************)
(* Confirmation of the destructive commands                                *)
(***************************************************************************)
DestructiveCommands == DeleteCommands \cup {"clear"}

\* The invocation sent a DELETE request.
DeleteSent ==
    \E i \in DOMAIN calls, h \in {getStoredToken(configInstance), getStoredToken(pre)} :
        calls[i] = DeleteCall(AuthorizationHeader(h))

(* C29: without --yes, `agreements delete`, `requisitions delete`,
   `payments delete` and `config clear` of the nordigen client make no
   network call, not even a token refresh, change nothing in the store and
   exit with code 0; a DELETE request is sent and the store is cleared only
   with --yes. *)
C29_DestructiveOnlyWithYes ==
    (cli = "nordigen" /\ op \in DestructiveCommands) =>
        /\ ~HasOption(args, "--yes") =>
              /\ pc = "done" /\ proc.code = 0 /\ proc.err = <<>>
              /\ calls = <<>> /\ resps = <<>>
              /\ nWrites = 0 /\ configInstance = pre
        /\ DeleteSent => HasOption(args, "--yes")
        /\ (\E i \in DOMAIN calls : IsResource(calls[i])) => DeleteSent
        /\ (op = "clear" /\ configInstance # pre) => HasOption(args, "--yes")

\* A delete without --yes on a session that was due for a refresh
C29_Witness ==
    /\ op = "agreements delete" /\ args = <<>> /\ pc = "done"
    /\ ensureAuthBranch(pre, t0) = "refresh"
    /\ calls = <<>> /\ proc.code = 0

\* The same command with --yes, sending its DELETE request
C29_WitnessConfirmed ==
    /\ op = "agreements delete" /\ args = <<"--yes">> /\ pc = "done"
    /\ DeleteSent /\ proc.code = 0


(***************************************************************************)
(* `auth status` and token resolution                                      *)
(***************************************************************************)
\* `auth status` reported the access token as valid.
ReportsValid ==
    IF cli = "nordigen"
    THEN \E i \in DOMAIN proc.out : proc.out[i] = <<"Access Token", "Valid">>
    ELSE proc.code = 0 /\ proc.out # <<>> /\ proc.out[1] = "Authenticated with Nordigen"

\* A request made now would use the stored token without any token call.
WouldUseStoredToken ==
    IF cli = "nordigen" THEN ensureAuthBranch(pre, t0) = "stored"
    ELSE getAccessTokenBranch(pre, t0) = "stored"

\* What getAuthStatus() returned satisfies its invariants and agrees with
\* ensureAuth().
StatusAgreesWithEnsureAuth ==
    LET status == ret.val
    IN  /\ status.authenticated <=> (status.accessTokenValid \/ status.refreshTokenValid)
        /\ status.accessTokenValid <=> ensureAuthBranch(pre, t0) = "stored"
        /\ status.accessExpiresIn >= 0 /\ status.refreshExpiresIn >= 0
        /\ ~status.authenticated <=> ensureAuthBranch(pre, t0) = "unauthenticated"
        /\ ~status.authenticated <=>
              (\E i \in DOMAIN proc.out : proc.out[i] = <<"Status", "Not Authenticated">>)

AuthStatusDone == op = "auth status" /\ pc = "done"

(* C30, as claimed: in both clients `auth status` reports the access token as
   valid exactly when a request made at that moment would use the stored
   token without any token call, and the result of the nordigen client's
   getAuthStatus() has authenticated = accessTokenValid or refreshTokenValid,
   both remaining lifetimes >= 0, and authenticated = false exactly when
   ensureAuth() would raise 'Not authenticated'. *)
C30_Original_StatusAgreesWithResolution ==
    AuthStatusDone =>
        /\ ReportsValid <=> WouldUseStoredToken
        /\ cli = "nordigen" => StatusAgreesWithEnsureAuth

(* C30, corrected: the nordigen client's `auth status` agrees with
   ensureAuth() as claimed, makes no call and exits with code 0.  The
   nordigencom client's `auth status` reports 'Authenticated with Nordigen'
   exactly when an access token is stored and tokenExpiry > now, without the
   60 s margin of hasValidToken(): whenever a request would use the stored
   token the status is 'authenticated', but a token with at most 60 s left
   is still reported authenticated although the next request refreshes or
   reacquires it; in every other case the command exits with code 1. *)
C30_StatusAgreesExceptLastMinute ==
    AuthStatusDone =>
        /\ calls = <<>> /\ nWrites = 0
        /\ cli = "nordigen" =>
              /\ ReportsValid <=> WouldUseStoredToken
              /\ StatusAgreesWithEnsureAuth
              /\ proc.code = 0 /\ configInstance = pre
        /\ cli = "nordigencom" =>
              /\ ReportsValid <=> (pre.accessToken # "" /\ pre.tokenExpiry > t0)
              /\ WouldUseStoredToken => ReportsValid
              /\ (ReportsValid /\ ~WouldUseStoredToken) =>
                    (pre.tokenExpiry - t0 > 0 /\ pre.tokenExpiry - t0 <= SKEW_MS)
              /\ ~ReportsValid => (proc.code = 1 /\ proc.err # <<>>)
              /\ config = pre

\* A token with at most 60 s left, reported authenticated
C30_Witness ==
    /\ AuthStatusDone /\ cli = "nordigencom"
    /\ ReportsValid /\ ~WouldUseStoredToken

\* The nordigen status of a session whose access token has expired and whose
\* refresh token has not
C30_WitnessNordigen ==
    /\ AuthStatusDone /\ cli = "nordigen"
    /\ ret.val.authenticated /\ ~ret.val.accessTokenValid /\ ret.val.refreshTokenValid
    /\ ~ReportsValid

====
